---- MODULE Spec2Model ----
(***************************************************************************)
(* EDH deck data compiler: the store (src/src/db/database.py), the         *)
(* ingestion jobs (src/src/orchestration/ingestion_job.py), the            *)
(* rate-limited request engine (src/src/adapters/base_adapter.py), the     *)
(* Archidekt commander discovery (src/src/adapters/archidekt.py), the      *)
(* card name normalizer (src/src/normalization/scryfall.py), the deck      *)
(* normalization job (src/src/normalization/normalizer.py), the Moxfield   *)
(* adapter (src/src/adapters/moxfield.py) and the job scheduler            *)
(* (src/src/orchestration/scheduler.py).                                   *)
(*                                                                         *)
(* Each component has its own specification over its own variables:        *)
(*   SpecDb    the store under deck persistence                            *)
(*   SpecEnrich the store under deck persistence and normalization         *)
(*   SpecJob   the four orchestrated jobs and the ingestion log            *)
(*   SpecReq   one caller of the request engine, with a clock              *)
(*   SpecConc  two concurrent callers of the same adapter                  *)
(*   SpecDisc  the paginated commander discovery                           *)
(*   SpecBatch the batch discovery over a list of commanders               *)
(*   SpecNorm  the card name normalizer                                    *)
(*   SpecFresh the normalizer when the remote dataset is republished      *)
(*   SpecNormJob the normalization job and the unmapped-card table         *)
(*   SpecMox   the Moxfield jobs and the adapter's browser fallback        *)
(*   SpecSched the scheduler loop, its jobs and its shutdown               *)
(*   SpecDeck  the raw deck normalizers of the two adapters                *)
(*   SpecReqLive one caller of the request engine under fair scheduling    *)
(*   SpecTxn   the store when the replacement of a deck's cards may fail   *)
(*   SpecLimits the loop jobs under configurations that reach their limits *)
(*   SpecSweepLive repeated normalization sweeps under fair scheduling     *)
(*   SpecBrowser the Moxfield adapter under browser requests and cleanups  *)
(*   SpecRunOnce the scheduler's manual run of one job by name             *)
(***************************************************************************)
EXTENDS Integers, Sequences, FiniteSets, TLC

VARIABLES
    \* ---- the store (database.py) ----
    sources,          \* table sources: sequence of names, id = position
    decks,            \* table decks: sequence of rows, id = position
    deck_cards,       \* table deck_cards: rows in insertion order
    deck_commanders,  \* table deck_commanders: rows in insertion order
    lastPayload,      \* history: key -> the payload persisted last (or NoPayload)
    repersisted,      \* history: keys persisted again with a different card list
    \* ---- the ingestion jobs (ingestion_job.py) ----
    adapters,         \* IngestionJob.adapters: names of the enabled adapters
    job,              \* the job invocation in progress: its locals and position
    logs,             \* table ingestion_logs: the JobRun records, in order
    calls,            \* history: one record per job invocation, in call order
    \* ---- the request engine of one adapter (base_adapter.py) ----
    now,              \* the clock time.time() reads, in ticks
    rate_limit,       \* BaseAdapter.rate_limit, requests per second
    last_request_time,\* BaseAdapter.last_request_time
    threads,          \* the callers that use the adapter
    th,               \* per caller: position and locals of its current call
    sent,             \* history: every HTTP GET sent, in order
    stamps,           \* history: every write of last_request_time, in order
    ncalls,           \* history: number of adapter operations started
    last_get,         \* history: the time of the latest GET of _make_request, if any
    \* ---- discover_top_viewed_deck_ids_by_commander (archidekt.py) ----
    dpc,              \* position in the function
    max_pages,        \* its argument
    page,             \* its local page
    all_deck_ids,     \* its local all_deck_ids
    unique_deck_ids,  \* the list it returns
    pages_seen,       \* history: page_deck_ids of every page fetched, in order
    seen_ids,         \* history: the deck ids linked in the markup of the pages fetched
    delays,           \* history: number of politeness delays slept
    \* ---- discover_deck_ids_for_commanders (archidekt.py) ----
    bpc,              \* position in the function
    commander_names,  \* its argument commander_names
    batch_max_pages,  \* its argument max_pages
    results,          \* its local results, the list it returns
    failures,         \* history: per commander processed, how its discovery failed
    \* ---- ScryfallNormalizer (scryfall.py) ----
    bulk_file,        \* the local bulk data file: missing, corrupt, or its cards
    remote,           \* the cards of the bulk data the provider serves
    oracle_cache,     \* ScryfallNormalizer.oracle_cache
    last_updated,     \* ScryfallNormalizer.last_updated
    clock,            \* datetime.utcnow(), in hours
    nlog,             \* history: the resolutions and rebuilds made, in order
    \* ---- the normalization job (normalizer.py, database.py) ----
    unmapped_cards,   \* table unmapped_cards: rows in insertion order
    logged,           \* history: per name, the number of log_unmapped_card calls
    last_seen,        \* the time of the latest log_unmapped_card call, modulo 2
    nruns,            \* history: one record per run_normalization call
    ingestion_job,    \* the IngestionJob object: not constructed, built, or failed
    \* ---- the Moxfield adapter (moxfield.py) ----
    driver,           \* MoxfieldAdapter.driver: the browser session, or none
    use_selenium,     \* MoxfieldAdapter.use_selenium
    mox_ops,          \* history: the discovery and fetch operations made, in order
    mox_exits,        \* history: the Moxfield jobs that returned, in order
    mox_job,          \* the Moxfield job in progress: its position and its locals
    \* ---- JobScheduler (scheduler.py) ----
    running,          \* JobScheduler.running
    sched_pc,         \* position of run_forever: new, loop, returned
    triggered,        \* history: the jobs the scheduler ran, in order
    stops,            \* history: the stop() calls, in order
    \* ---- the deck normalization of the adapters ----
    raw_deck,         \* the raw deck an adapter received
    deck_info         \* what the normalization of raw_deck returned

dbVars == <<sources, decks, deck_cards, deck_commanders, lastPayload, repersisted>>
jobVars == <<adapters, job, logs, calls>>

reqVars == <<now, rate_limit, last_request_time, threads, th, sent, stamps, ncalls,
             last_get>>

discVars == <<dpc, max_pages, page, all_deck_ids, unique_deck_ids, pages_seen, seen_ids,
              delays>>

batchVars == <<bpc, commander_names, batch_max_pages, results, failures>>
normVars == <<bulk_file, remote, oracle_cache, last_updated, clock, nlog>>

unmVars == <<unmapped_cards, logged, last_seen, nruns, ingestion_job>>

\* the components added after the request engine and the discovery
moxVars == <<driver, use_selenium, mox_ops, mox_exits, mox_job>>

schedVars == <<running, sched_pc, triggered, stops>>

deckVars == <<raw_deck, deck_info>>

extVars == <<unmVars, moxVars, schedVars, deckVars>>

\* the batch discovery, the normalizer and the later components together
restVars == <<batchVars, normVars, extVars>>

vars == <<dbVars, jobVars, reqVars, discVars, restVars>>

NULL == "NULL"

(***************************************************************************)
(* Generic helpers                                                         *)
(***************************************************************************)
Range(s) == {s[i] : i \in 1..Len(s)}

SeqsUpTo(S, n) == UNION {[1..k -> S] : k \in 0..n}

(***************************************************************************)
(* The store                                                               *)
(***************************************************************************)
MaxCards == 2

SourceNames == {"archidekt", "moxfield"}
SourceDeckIds == {"d1"}
Titles == {"t1"}
CardNames == {"Sol Ring", "Forest"}

CardEntry(n) == [name |-> n, qty |-> 1, oracle_id |-> NULL, zone |-> "main"]
CardEntries == {CardEntry(n) : n \in CardNames}
CommanderLists == {<<>>, <<[name |-> "Atraxa", oracle_id |-> NULL]>>}

\* deck_data as an adapter hands it to the job
Payloads ==
    [source_deck_id : SourceDeckIds, title : Titles,
     cards : SeqsUpTo(CardEntries, MaxCards), commanders : CommanderLists]

Keys == SourceNames \X SourceDeckIds
NoPayload == [source_deck_id |-> NULL]

\* SELECT id FROM sources WHERE name = ?; INSERT when absent
get_source_id(srcs, source_name) ==
    IF \E i \in 1..Len(srcs) : srcs[i] = source_name
    THEN [sources |-> srcs,
          id |-> CHOOSE i \in 1..Len(srcs) : srcs[i] = source_name]
    ELSE [sources |-> Append(srcs, source_name), id |-> Len(srcs) + 1]

\* Insert or update the deck row of (source, source_deck_id); returns its id
upsert_deck(srcs, dks, source_name, source_deck_id, deck_data) ==
    LET s == get_source_id(srcs, source_name)
        existing == {i \in 1..Len(dks) : /\ dks[i].source_id = s.id
                                         /\ dks[i].source_deck_id = source_deck_id}
    IN  IF existing # {}
        THEN LET id == CHOOSE i \in existing : \A j \in existing : i <= j
             IN  [sources |-> s.sources,
                  decks |-> [dks EXCEPT ![id].title = deck_data.title],
                  deck_id |-> id]
        ELSE [sources |-> s.sources,
              decks |-> Append(dks, [source_id |-> s.id,
                                     source_deck_id |-> source_deck_id,
                                     title |-> deck_data.title]),
              deck_id |-> Len(dks) + 1]

CardRows(deck_id, cards) ==
    [i \in 1..Len(cards) |->
        [deck_id |-> deck_id, name |-> cards[i].name, qty |-> cards[i].qty,
         oracle_id |-> cards[i].oracle_id, zone |-> cards[i].zone]]

\* a variant that never deletes the deck's old rows
insert_deck_cards_no_clear(rows, deck_id, cards, clear_existing) ==
    rows \o CardRows(deck_id, cards)

\* DELETE FROM deck_cards WHERE deck_id = ? (when clear_existing), then INSERT
insert_deck_cards(rows, deck_id, cards, clear_existing) ==
    LET kept == IF clear_existing
                THEN SelectSeq(rows, LAMBDA r : r.deck_id # deck_id)
                ELSE rows
    IN  kept \o CardRows(deck_id, cards)

\* DELETE FROM deck_commanders WHERE deck_id = ?, then INSERT
insert_deck_commanders(rows, deck_id, commanders) ==
    SelectSeq(rows, LAMBDA r : r.deck_id # deck_id)
        \o [i \in 1..Len(commanders) |->
              [deck_id |-> deck_id, oracle_id |-> commanders[i].oracle_id,
               name |-> commanders[i].name]]

\* The job's persistence of one fetched deck: upsert_deck, insert_deck_cards,
\* and insert_deck_commanders when the payload has commanders
PersistDeck(source_name, deck_data) ==
    LET u == upsert_deck(sources, decks, source_name, deck_data.source_deck_id, deck_data)
        key == <<source_name, deck_data.source_deck_id>>
    IN  /\ sources' = u.sources
        /\ decks' = u.decks
        /\ deck_cards' = insert_deck_cards(deck_cards, u.deck_id, deck_data.cards, TRUE)
        /\ deck_commanders' =
              IF deck_data.commanders # <<>>
              THEN insert_deck_commanders(deck_commanders, u.deck_id, deck_data.commanders)
              ELSE deck_commanders
        /\ lastPayload' = [lastPayload EXCEPT ![key] = deck_data]
        /\ repersisted' =
              IF /\ lastPayload[key] # NoPayload
                 /\ lastPayload[key].cards # deck_data.cards
              THEN repersisted \cup {key}
              ELSE repersisted

InitDb ==
    /\ sources = <<>>
    /\ decks = <<>>
    /\ deck_cards = <<>>
    /\ deck_commanders = <<>>
    /\ lastPayload = [k \in Keys |-> NoPayload]
    /\ repersisted = {}

ParkedDb == InitDb

NextDb ==
    \/ \E s \in SourceNames, p \in Payloads : PersistDeck(s, p) /\ UNCHANGED <<jobVars, reqVars, discVars, restVars>>

\* ---- a replacement of a deck's cards that fails ----
\* a card entry without the key 'name'
NamelessEntry == [name |-> NULL, qty |-> 1, oracle_id |-> NULL, zone |-> "main"]

\* deck_data with a nameless card entry, under a title of its own
BadPayloads ==
    [source_deck_id : SourceDeckIds, title : {"t2"},
     cards : {<<NamelessEntry>>, <<CardEntry("Sol Ring"), NamelessEntry>>},
     commanders : {<<>>}]

\* where the nameless entry makes the call raise: card['name'] while the rows
\* are built, or the INSERT of its row inside executemany
FailurePoints == {"build", "insert"}

\* a variant of the connection that commits when it is closed
connection_close_commits(committed, uncommitted, did_commit) == uncommitted

\* `with self.get_connection() as conn`: the connection is closed on the way
\* out; what was not committed is rolled back with it
get_connection(committed, uncommitted, did_commit) ==
    IF did_commit THEN uncommitted ELSE committed

\* insert_deck_cards as a transaction: the DELETE, the rows built from the
\* cards, the INSERTs, then conn.commit(); an exception skips the commit
InsertDeckCardsTxn(rows, deck_id, cards, clear_existing, fail_at) ==
    LET bad == {i \in 1..Len(cards) : cards[i].name = NULL}
        first_bad == CHOOSE i \in bad : \A j \in bad : i <= j
        inserted == IF bad = {} THEN cards
                    ELSE IF fail_at = "build" THEN <<>>
                    ELSE SubSeq(cards, 1, first_bad - 1)
        uncommitted == insert_deck_cards(rows, deck_id, inserted, clear_existing)
    IN  [raised |-> bad # {},
         rows |-> get_connection(rows, uncommitted, bad = {})]

\* the job's persistence of a deck whose card list cannot be inserted:
\* upsert_deck commits, insert_deck_cards raises, and the handler of the job
\* skips the commanders
PersistDeckFails(source_name, deck_data, fail_at) ==
    LET u == upsert_deck(sources, decks, source_name, deck_data.source_deck_id, deck_data)
        t == InsertDeckCardsTxn(deck_cards, u.deck_id, deck_data.cards, TRUE, fail_at)
    IN  /\ t.raised
        /\ sources' = u.sources
        /\ decks' = u.decks
        /\ deck_cards' = t.rows
        /\ UNCHANGED <<deck_commanders, lastPayload, repersisted>>

\* deck_data that is persisted before and after the failing one
GoodPayloads ==
    {p \in Payloads : /\ p.commanders = <<>>
                      /\ p.cards \in {<<CardEntry("Forest")>>,
                                      <<CardEntry("Sol Ring"), CardEntry("Forest")>>}}

NextTxn ==
    \/ \E s \in SourceNames, p \in GoodPayloads : PersistDeck(s, p) /\ UNCHANGED <<jobVars, reqVars, discVars, restVars>>
    \/ \E s \in SourceNames, p \in BadPayloads, fail_at \in FailurePoints : PersistDeckFails(s, p, fail_at) /\ UNCHANGED <<jobVars, reqVars, discVars, restVars>>

\* rows of the store, read back
DeckRowsOf(key) ==
    {i \in 1..Len(decks) : /\ Len(sources) >= decks[i].source_id
                           /\ sources[decks[i].source_id] = key[1]
                           /\ decks[i].source_deck_id = key[2]}

StoredCards(deck_id) ==
    LET rows == SelectSeq(deck_cards, LAMBDA r : r.deck_id = deck_id)
    IN  [i \in 1..Len(rows) |->
            [name |-> rows[i].name, qty |-> rows[i].qty,
             oracle_id |-> rows[i].oracle_id, zone |-> rows[i].zone]]

(***************************************************************************)
(* The ingestion jobs                                                      *)
(***************************************************************************)
MaxRuns == 1
MaxIds == 3
MaxPagesCfg == 2
MaxDecksPerPage == 2
DefaultMaxDecks == 50
IncrementalPageCap == 10

DeckIds == {"x1"}
JobNames == {"archidekt_incremental", "moxfield_discovery", "moxfield_export", "normalize"}

\* what one unit of work (one deck) does: it is fetched and persisted ("ok"),
\* fetch_deck returns None ("none"), or the unit raises ("raise")
UnitOutcomes == {"ok", "none", "raise"}
CardCounts == {MaxCards}

Idle == [pc |-> "idle"]

\* INSERT INTO ingestion_logs
log_ingestion(lg, source_name, operation, status, decks_processed, cards_processed, errors_count, message) ==
    Append(lg, [source_name |-> source_name, operation |-> operation, status |-> status,
                decks_processed |-> decks_processed, cards_processed |-> cards_processed,
                errors_count |-> errors_count, message |-> message])

\* the dict a job returns; NULL stands for a key the dict does not have
Result(status, decks_processed, errors, message) ==
    [status |-> status, decks_processed |-> decks_processed, errors |-> errors,
     message |-> message]

SkippedResult == Result("skipped", NULL, NULL, "adapter not enabled")
ErrorResult == Result("error", NULL, NULL, "exception")
Running == Result("running", NULL, NULL, NULL)

\* one invocation: the job, the positions in logs of the records it wrote, and
\* the result it returned
Call(name, records, result) == [job |-> name, records |-> records, result |-> result]

CanStart == job.pc \in {"idle", "done"} /\ Len(calls) < MaxRuns

\* the job-level except clause of every job: one error record, an error result
JobLevelHandler(source_name, operation) ==
    /\ logs' = log_ingestion(logs, source_name, operation, "error", 0, 0, 1, "exception")
    /\ calls' = [calls EXCEPT ![job.call].records = Append(@, Len(logs) + 1),
                              ![job.call].result = ErrorResult]
    /\ job' = [job EXCEPT !.pc = "done"]

\* the status both loop jobs pass to log_ingestion
loop_status_all_success(errors) == "success"

LoopStatus(errors) == IF errors = 0 THEN "success" ELSE "partial"

\* ---- run_archidekt_incremental ----
IncrementalSkipped ==
    /\ CanStart
    /\ "archidekt" \notin adapters
    /\ calls' = Append(calls, Call("archidekt_incremental", <<>>, SkippedResult))
    /\ UNCHANGED <<adapters, job, logs>>

Min(a, b) == IF a <= b THEN a ELSE b

\* the job up to its page loop, for the configured values of max_pages given;
\* pages is the history of the pages passed to fetch_deck_bulk, stopped tells
\* that a page returned no decks
IncrementalStartWith(max_pages_cfgs) ==
    /\ CanStart
    /\ "archidekt" \in adapters
    /\ \E cfg_max_pages \in max_pages_cfgs :
          job' = [pc |-> "pages", name |-> "archidekt_incremental",
                  call |-> Len(calls) + 1,
                  max_pages |-> cfg_max_pages,
                  last_page |-> Min(cfg_max_pages, IncrementalPageCap),
                  page |-> 1, total_decks |-> 0, total_cards |-> 0, errors |-> 0,
                  units |-> <<>>, pages |-> <<>>, stopped |-> FALSE]
    /\ calls' = Append(calls, Call("archidekt_incremental", <<>>, Running))
    /\ UNCHANGED <<adapters, logs>>

IncrementalStart == IncrementalStartWith(1..MaxPagesCfg)

\* counters after the decks of one page, each persisted or failing
RECURSIVE AfterDecks(_, _)
AfterDecks(j, outcomes) ==
    IF outcomes = <<>> THEN j
    ELSE LET o == Head(outcomes)
             j2 == IF o.unit = "ok"
                   THEN [j EXCEPT !.total_decks = @ + 1, !.total_cards = @ + o.cards]
                   ELSE [j EXCEPT !.errors = @ + 1]
         IN  AfterDecks([j2 EXCEPT !.units = Append(@, o.unit)], Tail(outcomes))

\* one page of the bulk listing: fetch_deck_bulk raises, returns no decks (also
\* when its request failed), or returns decks that are then persisted one by one
IncrementalPageRaises ==
    /\ job.pc = "pages" /\ job.page <= job.last_page
    /\ job' = [job EXCEPT !.errors = @ + 1, !.page = @ + 1,
                          !.units = Append(@, "page_raise"),
                          !.pages = Append(@, job.page)]
    /\ UNCHANGED <<adapters, logs, calls>>

\* the request of fetch_deck_bulk fails: its handler returns [], which the job
\* takes for the end of the listing
IncrementalPageFetchFails ==
    /\ job.pc = "pages" /\ job.page <= job.last_page
    /\ job' = [job EXCEPT !.pc = "finish", !.units = Append(@, "page_failed"),
                          !.pages = Append(@, job.page), !.stopped = TRUE]
    /\ UNCHANGED <<adapters, logs, calls>>

IncrementalPageEmpty ==
    /\ job.pc = "pages" /\ job.page <= job.last_page
    /\ job' = [job EXCEPT !.pc = "finish", !.pages = Append(@, job.page),
                          !.stopped = TRUE]
    /\ UNCHANGED <<adapters, logs, calls>>

\* a page with decks, for the numbers of decks and the outcomes of a deck given
IncrementalPageWith(deck_counts, unit_outcomes) ==
    /\ job.pc = "pages" /\ job.page <= job.last_page
    /\ \E n \in deck_counts :
       \E outcomes \in [1..n -> [unit : unit_outcomes, cards : CardCounts]] :
          job' = [AfterDecks(job, outcomes) EXCEPT !.page = @ + 1,
                                                   !.pages = Append(@, job.page)]
    /\ UNCHANGED <<adapters, logs, calls>>

IncrementalPage == IncrementalPageWith(1..MaxDecksPerPage, {"ok", "raise"})

IncrementalPagesDone ==
    /\ job.pc = "pages" /\ job.page > job.last_page
    /\ job' = [job EXCEPT !.pc = "finish"]
    /\ UNCHANGED <<adapters, logs, calls>>

IncrementalFinish ==
    /\ job.pc = "finish" /\ job.name = "archidekt_incremental"
    /\ logs' = log_ingestion(logs, "archidekt", "incremental", LoopStatus(job.errors),
                             job.total_decks, job.total_cards, job.errors, NULL)
    /\ calls' = [calls EXCEPT ![job.call].records = Append(@, Len(logs) + 1),
                              ![job.call].result =
                                  Result("success", job.total_decks, job.errors, NULL)]
    /\ job' = [job EXCEPT !.pc = "done"]
    /\ UNCHANGED adapters

\* log_ingestion of the normal path raises: the job-level handler runs
IncrementalFinishRaises ==
    /\ job.pc = "finish" /\ job.name = "archidekt_incremental"
    /\ JobLevelHandler("archidekt", "incremental")
    /\ UNCHANGED adapters

\* ---- run_moxfield_discovery ----
\* what adapter.discover_decks() does: it returns a list of ids or raises
DiscoverOutcomes ==
    {[raises |-> TRUE, ids |-> <<>>]}
    \cup {[raises |-> FALSE, ids |-> l] : l \in SeqsUpTo(DeckIds, MaxIds)}

\* the body of run_moxfield_discovery past the enabled check: the record it
\* logs and the result it returns
DiscoveryBody(lg, outcome) ==
    IF outcome.raises
    THEN [logs |-> log_ingestion(lg, "moxfield", "discovery", "error", 0, 0, 1, "exception"),
          result |-> ErrorResult, discovered_ids |-> <<>>]
    ELSE [logs |-> log_ingestion(lg, "moxfield", "discovery", "success",
                                 Len(outcome.ids), 0, 0, NULL),
          result |-> Result("success", NULL, NULL, NULL), discovered_ids |-> outcome.ids]

DiscoverySkipped ==
    /\ CanStart
    /\ "moxfield" \notin adapters
    /\ calls' = Append(calls, Call("moxfield_discovery", <<>>, SkippedResult))
    /\ UNCHANGED <<adapters, job, logs>>

DiscoveryRun ==
    /\ CanStart
    /\ "moxfield" \in adapters
    /\ \E outcome \in DiscoverOutcomes :
          LET d == DiscoveryBody(logs, outcome)
          IN  /\ logs' = d.logs
              /\ calls' = Append(calls, Call("moxfield_discovery", <<Len(logs) + 1>>, d.result))
    /\ UNCHANGED <<adapters, job>>

\* ---- run_moxfield_export ----
MaxDecksArgs == {1, DefaultMaxDecks}

\* a variant that processes every id of the list
export_job_no_limit(call, deck_ids, max_decks) ==
    [pc |-> "units", name |-> "moxfield_export", call |-> call,
     deck_ids |-> deck_ids, max_decks |-> max_decks, ids |-> deck_ids,
     total_decks |-> 0, total_cards |-> 0, errors |-> 0, units |-> <<>>,
     fetched |-> <<>>]

\* the locals of run_moxfield_export before its loop; ids is processed_ids,
\* fetched the history of the ids passed to fetch_deck
ExportJob(call, deck_ids, max_decks) ==
    [pc |-> "units", name |-> "moxfield_export", call |-> call,
     deck_ids |-> deck_ids, max_decks |-> max_decks,
     ids |-> SubSeq(deck_ids, 1, Min(Len(deck_ids), max_decks)),
     total_decks |-> 0, total_cards |-> 0, errors |-> 0, units |-> <<>>,
     fetched |-> <<>>]

ExportSkipped ==
    /\ CanStart
    /\ "moxfield" \notin adapters
    /\ calls' = Append(calls, Call("moxfield_export", <<>>, SkippedResult))
    /\ UNCHANGED <<adapters, job, logs>>

\* called with deck ids, for the lists and the values of max_decks given
ExportStartWith(id_lists, max_decks_args) ==
    /\ CanStart
    /\ "moxfield" \in adapters
    /\ \E deck_ids \in id_lists \ {<<>>}, max_decks \in max_decks_args :
          job' = ExportJob(Len(calls) + 1, deck_ids, max_decks)
    /\ calls' = Append(calls, Call("moxfield_export", <<>>, Running))
    /\ UNCHANGED <<adapters, logs>>

ExportStart == ExportStartWith(SeqsUpTo(DeckIds, MaxIds), MaxDecksArgs)

\* called without deck ids: discovery runs first, as an invocation of its own;
\* its result is returned when it did not succeed
ExportStartDiscoveryFails ==
    /\ CanStart
    /\ "moxfield" \in adapters
    /\ LET d == DiscoveryBody(logs, [raises |-> TRUE, ids |-> <<>>])
       IN  /\ logs' = d.logs
           /\ calls' = calls \o <<Call("moxfield_export", <<>>, d.result),
                                  Call("moxfield_discovery", <<Len(logs) + 1>>, d.result)>>
    /\ UNCHANGED <<adapters, job>>

ExportStartDiscovers ==
    /\ CanStart
    /\ "moxfield" \in adapters
    /\ \E ids \in SeqsUpTo(DeckIds, MaxIds), max_decks \in MaxDecksArgs :
          LET d == DiscoveryBody(logs, [raises |-> FALSE, ids |-> ids])
          IN  /\ logs' = d.logs
              /\ calls' = calls \o <<Call("moxfield_export", <<>>, Running),
                                     Call("moxfield_discovery", <<Len(logs) + 1>>, d.result)>>
              /\ job' = ExportJob(Len(calls) + 1, d.discovered_ids, max_decks)
    /\ UNCHANGED adapters

\* one deck id: fetch_deck, then the persistence of the deck
ExportUnit ==
    /\ job.pc = "units" /\ Len(job.units) < Len(job.ids)
    /\ \E o \in UnitOutcomes, n \in CardCounts :
          job' = [AfterDecks(job, <<[unit |-> o, cards |-> n]>>)
                     EXCEPT !.fetched = Append(@, job.ids[Len(job.units) + 1])]
    /\ UNCHANGED <<adapters, logs, calls>>

ExportUnitsDone ==
    /\ job.pc = "units" /\ Len(job.units) = Len(job.ids)
    /\ job' = [job EXCEPT !.pc = "finish"]
    /\ UNCHANGED <<adapters, logs, calls>>

ExportFinish ==
    /\ job.pc = "finish" /\ job.name = "moxfield_export"
    /\ logs' = log_ingestion(logs, "moxfield", "export", LoopStatus(job.errors),
                             job.total_decks, job.total_cards, job.errors, NULL)
    /\ calls' = [calls EXCEPT ![job.call].records = Append(@, Len(logs) + 1),
                              ![job.call].result =
                                  Result("success", job.total_decks, job.errors, NULL)]
    /\ job' = [job EXCEPT !.pc = "done"]
    /\ UNCHANGED adapters

ExportFinishRaises ==
    /\ job.pc = "finish" /\ job.name = "moxfield_export"
    /\ JobLevelHandler("moxfield", "export")
    /\ UNCHANGED adapters

\* ---- run_normalization ----
\* what normalize_all_pending returns: an error dict, a success dict with its
\* counts, or it raises
NormalizeOutcomes ==
    {[status |-> "error", normalized |-> 0, failed |-> 0, decks |-> 0],
     [status |-> "raise", normalized |-> 0, failed |-> 0, decks |-> 0]}
    \cup [status : {"success"}, normalized : 0..1, failed : 0..1, decks : 0..1]

NormalizationRun ==
    /\ CanStart
    /\ \E r \in NormalizeOutcomes :
          IF r.status = "raise"
          THEN /\ logs' = log_ingestion(logs, "scryfall", "normalize", "error",
                                        0, 0, 1, "exception")
               /\ calls' = Append(calls, Call("normalize", <<Len(logs) + 1>>, ErrorResult))
          ELSE /\ logs' = log_ingestion(logs, "scryfall", "normalize",
                                        IF r.status = "success" THEN "success" ELSE "error",
                                        r.decks, r.normalized + r.failed, r.failed,
                                        IF r.status = "success" THEN "" ELSE "failed")
               /\ calls' = Append(calls, Call("normalize", <<Len(logs) + 1>>,
                                   Result(r.status, NULL, NULL,
                                          IF r.status = "success" THEN NULL ELSE "failed")))
    /\ UNCHANGED <<adapters, job>>

InitJob ==
    /\ adapters \in SUBSET {"archidekt", "moxfield"}
    /\ job = Idle
    /\ logs = <<>>
    /\ calls = <<>>

ParkedJob ==
    /\ adapters = {}
    /\ job = Idle
    /\ logs = <<>>
    /\ calls = <<>>

NextJob ==
    \/ IncrementalSkipped /\ UNCHANGED <<dbVars, reqVars, discVars, restVars>>
    \/ IncrementalStart /\ UNCHANGED <<dbVars, reqVars, discVars, restVars>>
    \/ IncrementalPageRaises /\ UNCHANGED <<dbVars, reqVars, discVars, restVars>>
    \/ IncrementalPageFetchFails /\ UNCHANGED <<dbVars, reqVars, discVars, restVars>>
    \/ IncrementalPageEmpty /\ UNCHANGED <<dbVars, reqVars, discVars, restVars>>
    \/ IncrementalPage /\ UNCHANGED <<dbVars, reqVars, discVars, restVars>>
    \/ IncrementalPagesDone /\ UNCHANGED <<dbVars, reqVars, discVars, restVars>>
    \/ IncrementalFinish /\ UNCHANGED <<dbVars, reqVars, discVars, restVars>>
    \/ IncrementalFinishRaises /\ UNCHANGED <<dbVars, reqVars, discVars, restVars>>
    \/ DiscoverySkipped /\ UNCHANGED <<dbVars, reqVars, discVars, restVars>>
    \/ DiscoveryRun /\ UNCHANGED <<dbVars, reqVars, discVars, restVars>>
    \/ ExportSkipped /\ UNCHANGED <<dbVars, reqVars, discVars, restVars>>
    \/ ExportStart /\ UNCHANGED <<dbVars, reqVars, discVars, restVars>>
    \/ ExportStartDiscoveryFails /\ UNCHANGED <<dbVars, reqVars, discVars, restVars>>
    \/ ExportStartDiscovers /\ UNCHANGED <<dbVars, reqVars, discVars, restVars>>
    \/ ExportUnit /\ UNCHANGED <<dbVars, reqVars, discVars, restVars>>
    \/ ExportUnitsDone /\ UNCHANGED <<dbVars, reqVars, discVars, restVars>>
    \/ ExportFinish /\ UNCHANGED <<dbVars, reqVars, discVars, restVars>>
    \/ ExportFinishRaises /\ UNCHANGED <<dbVars, reqVars, discVars, restVars>>
    \/ NormalizationRun /\ UNCHANGED <<dbVars, reqVars, discVars, restVars>>

\* ---- the per-run limits of the two loop jobs ----
\* max_pages when the configuration has no such key
DefaultMaxPages == 50

\* configured values of max_pages below and above the cap of the job
LimitMaxPages == {MaxPagesCfg, DefaultMaxPages}
\* lists of deck ids, and values of max_decks below, at and above their length
LimitIdLists == {<<"x1">>, <<"x1", "x2", "x3">>}
LimitMaxDecks == {1, 3, DefaultMaxDecks}

\* the process runs one job
FirstRun == calls = <<>>

\* one run of either loop job, with pages of one deck that is persisted
NextLimits ==
    \/ FirstRun /\ IncrementalStartWith(LimitMaxPages) /\ UNCHANGED <<dbVars, reqVars, discVars, restVars>>
    \/ IncrementalPageRaises /\ UNCHANGED <<dbVars, reqVars, discVars, restVars>>
    \/ IncrementalPageFetchFails /\ UNCHANGED <<dbVars, reqVars, discVars, restVars>>
    \/ IncrementalPageEmpty /\ UNCHANGED <<dbVars, reqVars, discVars, restVars>>
    \/ IncrementalPageWith({1}, {"ok"}) /\ UNCHANGED <<dbVars, reqVars, discVars, restVars>>
    \/ IncrementalPagesDone /\ UNCHANGED <<dbVars, reqVars, discVars, restVars>>
    \/ IncrementalFinish /\ UNCHANGED <<dbVars, reqVars, discVars, restVars>>
    \/ IncrementalFinishRaises /\ UNCHANGED <<dbVars, reqVars, discVars, restVars>>
    \/ FirstRun /\ ExportStartWith(LimitIdLists, LimitMaxDecks) /\ UNCHANGED <<dbVars, reqVars, discVars, restVars>>
    \/ FirstRun /\ ExportStartDiscovers /\ UNCHANGED <<dbVars, reqVars, discVars, restVars>>
    \/ ExportUnit /\ UNCHANGED <<dbVars, reqVars, discVars, restVars>>
    \/ ExportUnitsDone /\ UNCHANGED <<dbVars, reqVars, discVars, restVars>>
    \/ ExportFinish /\ UNCHANGED <<dbVars, reqVars, discVars, restVars>>
    \/ ExportFinishRaises /\ UNCHANGED <<dbVars, reqVars, discVars, restVars>>

\* the JobRun records an invocation wrote
RecordsOf(c) == [i \in 1..Len(calls[c].records) |-> logs[calls[c].records[i]]]

(***************************************************************************)
(* The rate-limited request engine                                         *)
(***************************************************************************)
TicksPerSecond == 2
MaxTime == 10
MaxCalls == 3
max_retries == 1
backoff_base == 2

RateLimits == {0, 1, 2}
RetryAfters == {0, 1}
ThreadIds == {1, 2}

\* operations of the adapters that go through _make_request
EngineOps == {"fetch_deck"}
\* the commander search of the Archidekt adapter
SearchOp == "discover_deck_ids_by_commander"

RECURSIVE Pow(_, _)
Pow(b, e) == IF e = 0 THEN 1 ELSE b * Pow(b, e - 1)

\* 1.0 / rate_limit, in ticks
MinInterval(rate) == TicksPerSecond \div rate

\* random.uniform(0, min_interval * 0.1), rounded up to whole ticks
Jitters(min_interval) == 0..((min_interval + 9) \div 10)

\* time.time() at process start lies far beyond last_request_time = 0
StartTime == TicksPerSecond

NoResult == [kind |-> "pending", cause |-> NULL]
IdleThread ==
    [pc |-> "idle", call |-> 0, op |-> NULL, attempt |-> 0, wake |-> 0,
     got |-> <<>>, result |-> NoResult]

CanCall(t) == th[t].pc \in {"idle", "done"} /\ ncalls < MaxCalls

\* an adapter operation calls _make_request, which first calls _rate_limit
StartRequest(t) ==
    /\ CanCall(t)
    /\ \E op \in EngineOps :
          th' = [th EXCEPT ![t] = [IdleThread EXCEPT !.pc = "rate_limit",
                                                     !.call = ncalls + 1, !.op = op]]
    /\ ncalls' = ncalls + 1
    /\ UNCHANGED <<now, rate_limit, last_request_time, threads, sent, stamps, last_get>>

\* _rate_limit with rate_limit <= 0 returns at once
RateLimitOff(t) ==
    /\ th[t].pc = "rate_limit"
    /\ rate_limit <= 0
    /\ th' = [th EXCEPT ![t].pc = "get"]
    /\ UNCHANGED <<now, rate_limit, last_request_time, threads, sent, stamps, ncalls, last_get>>

\* the time _rate_limit sleeps until, after reading the clock and last_request_time
sleep_until_no_wait(t_now, last, rate, jitter) == t_now

SleepUntil(t_now, last, rate, jitter) ==
    LET elapsed == t_now - last
        min_interval == MinInterval(rate)
    IN  IF elapsed < min_interval
        THEN t_now + (min_interval - elapsed) + jitter
        ELSE t_now

\* _rate_limit reads the clock and last_request_time and decides how long to sleep
RateLimitCheck(t) ==
    /\ th[t].pc = "rate_limit"
    /\ rate_limit > 0
    /\ \E jitter \in Jitters(MinInterval(rate_limit)) :
          th' = [th EXCEPT ![t].pc = "rate_limit_stamp",
                           ![t].wake = SleepUntil(now, last_request_time, rate_limit, jitter)]
    /\ UNCHANGED <<now, rate_limit, last_request_time, threads, sent, stamps, ncalls, last_get>>

\* after the sleep, if any: last_request_time = time.time()
RateLimitStamp(t) ==
    /\ th[t].pc = "rate_limit_stamp"
    /\ now >= th[t].wake
    /\ last_request_time' = now
    /\ stamps' = Append(stamps, [call |-> th[t].call, thread |-> t, t |-> now])
    /\ th' = [th EXCEPT ![t].pc = "get", ![t].wake = 0]
    /\ UNCHANGED <<now, rate_limit, threads, sent, ncalls, last_get>>

Sent(t) == [call |-> th[t].call, op |-> th[t].op, attempt |-> th[t].attempt]

\* session.get answers with a success status
GetOk(t) ==
    /\ th[t].pc = "get"
    /\ sent' = Append(sent, Sent(t))
    /\ th' = [th EXCEPT ![t].pc = "done", ![t].got = Append(@, "ok"),
                        ![t].result = [kind |-> "response", cause |-> NULL]]
    /\ last_get' = [at |-> now, set |-> TRUE]
    /\ UNCHANGED <<now, rate_limit, last_request_time, threads, stamps, ncalls>>

\* session.get answers 429: sleep Retry-After seconds, then continue
Get429(t) ==
    /\ th[t].pc = "get"
    /\ sent' = Append(sent, Sent(t))
    /\ \E retry_after \in RetryAfters :
          th' = [th EXCEPT ![t].pc = "sleep_429", ![t].got = Append(@, "429"),
                           ![t].wake = now + retry_after * TicksPerSecond]
    /\ last_get' = [at |-> now, set |-> TRUE]
    /\ UNCHANGED <<now, rate_limit, last_request_time, threads, stamps, ncalls>>

\* a variant whose `continue` does not use up an attempt
after_429_same_attempt(thr) == [thr EXCEPT !.pc = "get", !.wake = 0]

\* where the for loop goes after `continue`: the next attempt, or past the loop,
\* where the function ends without a return statement
After429Loop(thr) ==
    IF thr.attempt < max_retries
    THEN [thr EXCEPT !.pc = "get", !.attempt = @ + 1, !.wake = 0]
    ELSE [thr EXCEPT !.pc = "done", !.wake = 0, !.result = [kind |-> "none", cause |-> NULL]]

After429(t) ==
    /\ th[t].pc = "sleep_429"
    /\ now >= th[t].wake
    /\ th' = [th EXCEPT ![t] = After429Loop(th[t])]
    /\ UNCHANGED <<now, rate_limit, last_request_time, threads, sent, stamps, ncalls, last_get>>

\* session.get raises, or raise_for_status raises on an error status: back off
\* and retry while attempt < max_retries, else re-raise
GetFails(t) ==
    /\ th[t].pc = "get"
    /\ sent' = Append(sent, Sent(t))
    /\ \E e \in {"http_error", "connection_error"} :
          IF th[t].attempt < max_retries
          THEN \E jitter \in 0..TicksPerSecond :
                  th' = [th EXCEPT ![t].pc = "backoff", ![t].got = Append(@, e),
                                   ![t].wake = now + Pow(backoff_base, th[t].attempt)
                                                       * TicksPerSecond + jitter]
          ELSE th' = [th EXCEPT ![t].pc = "done", ![t].got = Append(@, e),
                                ![t].result = [kind |-> "raised", cause |-> e]]
    /\ last_get' = [at |-> now, set |-> TRUE]
    /\ UNCHANGED <<now, rate_limit, last_request_time, threads, stamps, ncalls>>

AfterBackoff(t) ==
    /\ th[t].pc = "backoff"
    /\ now >= th[t].wake
    /\ th' = [th EXCEPT ![t].pc = "get", ![t].attempt = @ + 1, ![t].wake = 0]
    /\ UNCHANGED <<now, rate_limit, last_request_time, threads, sent, stamps, ncalls, last_get>>

\* discover_deck_ids_by_commander: one requests.get; any failure gives []
SearchCommander(t) ==
    /\ CanCall(t)
    /\ sent' = Append(sent, [call |-> ncalls + 1, op |-> SearchOp, attempt |-> 0])
    /\ \E r \in {"ok", "http_error", "connection_error"} :
          th' = [th EXCEPT ![t] = [IdleThread EXCEPT !.pc = "done", !.call = ncalls + 1,
                                                     !.op = SearchOp, !.got = <<r>>,
                                                     !.result = [kind |-> "list", cause |-> NULL]]]
    /\ ncalls' = ncalls + 1
    /\ UNCHANGED <<now, rate_limit, last_request_time, threads, stamps, last_get>>

\* time passes: while a caller sleeps, or between two operations of a caller
Tick ==
    /\ now < MaxTime
    /\ \E t \in threads : \/ th[t].wake > now
                          \/ CanCall(t)
    /\ now' = now + 1
    /\ UNCHANGED <<rate_limit, last_request_time, threads, th, sent, stamps, ncalls, last_get>>

\* time passes while a caller sleeps
TickAsleep ==
    /\ \E t \in threads : th[t].wake > now
    /\ now' = now + 1
    /\ UNCHANGED <<rate_limit, last_request_time, threads, th, sent, stamps, ncalls, last_get>>

InitReqWith(callers) ==
    /\ now = StartTime
    /\ rate_limit \in RateLimits
    /\ last_request_time = 0
    /\ threads = callers
    /\ th = [t \in callers |-> IdleThread]
    /\ sent = <<>>
    /\ stamps = <<>>
    /\ ncalls = 0
    /\ last_get = [at |-> 0, set |-> FALSE]

ParkedReq ==
    /\ now = StartTime
    /\ rate_limit = 0
    /\ last_request_time = 0
    /\ threads = {}
    /\ th = <<>>
    /\ sent = <<>>
    /\ stamps = <<>>
    /\ ncalls = 0
    /\ last_get = [at |-> 0, set |-> FALSE]

NextReq ==
    \/ \E t \in threads : StartRequest(t) /\ UNCHANGED <<dbVars, jobVars, discVars, restVars>>
    \/ \E t \in threads : RateLimitOff(t) /\ UNCHANGED <<dbVars, jobVars, discVars, restVars>>
    \/ \E t \in threads : RateLimitCheck(t) /\ UNCHANGED <<dbVars, jobVars, discVars, restVars>>
    \/ \E t \in threads : RateLimitStamp(t) /\ UNCHANGED <<dbVars, jobVars, discVars, restVars>>
    \/ \E t \in threads : GetOk(t) /\ UNCHANGED <<dbVars, jobVars, discVars, restVars>>
    \/ \E t \in threads : Get429(t) /\ UNCHANGED <<dbVars, jobVars, discVars, restVars>>
    \/ \E t \in threads : After429(t) /\ UNCHANGED <<dbVars, jobVars, discVars, restVars>>
    \/ \E t \in threads : GetFails(t) /\ UNCHANGED <<dbVars, jobVars, discVars, restVars>>
    \/ \E t \in threads : AfterBackoff(t) /\ UNCHANGED <<dbVars, jobVars, discVars, restVars>>
    \/ \E t \in threads : SearchCommander(t) /\ UNCHANGED <<dbVars, jobVars, discVars, restVars>>
    \/ Tick /\ UNCHANGED <<dbVars, jobVars, discVars, restVars>>

\* the steps of one caller inside _make_request
CallerStep(t) ==
    \/ RateLimitOff(t) \/ RateLimitCheck(t) \/ RateLimitStamp(t)
    \/ GetOk(t) \/ Get429(t) \/ After429(t) \/ GetFails(t) \/ AfterBackoff(t)

MaxLiveCalls == 1

\* an adapter operation calls _make_request as soon as the call before it ended
StartNextRequest(t) == ncalls < MaxLiveCalls /\ StartRequest(t)

\* calls of _make_request made one after the other; time passes through the
\* sleeps of the calls
NextReqLive ==
    \/ \E t \in threads : StartNextRequest(t) /\ UNCHANGED <<dbVars, jobVars, discVars, restVars>>
    \/ \E t \in threads : RateLimitOff(t) /\ UNCHANGED <<dbVars, jobVars, discVars, restVars>>
    \/ \E t \in threads : RateLimitCheck(t) /\ UNCHANGED <<dbVars, jobVars, discVars, restVars>>
    \/ \E t \in threads : RateLimitStamp(t) /\ UNCHANGED <<dbVars, jobVars, discVars, restVars>>
    \/ \E t \in threads : GetOk(t) /\ UNCHANGED <<dbVars, jobVars, discVars, restVars>>
    \/ \E t \in threads : Get429(t) /\ UNCHANGED <<dbVars, jobVars, discVars, restVars>>
    \/ \E t \in threads : After429(t) /\ UNCHANGED <<dbVars, jobVars, discVars, restVars>>
    \/ \E t \in threads : GetFails(t) /\ UNCHANGED <<dbVars, jobVars, discVars, restVars>>
    \/ \E t \in threads : AfterBackoff(t) /\ UNCHANGED <<dbVars, jobVars, discVars, restVars>>
    \/ TickAsleep /\ UNCHANGED <<dbVars, jobVars, discVars, restVars>>

\* a caller inside _make_request goes on running, and its sleeps end
ReqFairness ==
    /\ WF_vars(TickAsleep /\ UNCHANGED <<dbVars, jobVars, discVars, restVars>>)
    /\ WF_vars(CallerStep(1) /\ UNCHANGED <<dbVars, jobVars, discVars, restVars>>)

\* concurrent callers whose requests all succeed
NextConc ==
    \/ \E t \in threads : StartRequest(t) /\ UNCHANGED <<dbVars, jobVars, discVars, restVars>>
    \/ \E t \in threads : RateLimitOff(t) /\ UNCHANGED <<dbVars, jobVars, discVars, restVars>>
    \/ \E t \in threads : RateLimitCheck(t) /\ UNCHANGED <<dbVars, jobVars, discVars, restVars>>
    \/ \E t \in threads : RateLimitStamp(t) /\ UNCHANGED <<dbVars, jobVars, discVars, restVars>>
    \/ \E t \in threads : GetOk(t) /\ UNCHANGED <<dbVars, jobVars, discVars, restVars>>
    \/ Tick /\ UNCHANGED <<dbVars, jobVars, discVars, restVars>>

(***************************************************************************)
(* The paginated commander discovery                                       *)
(***************************************************************************)
MaxPages == 3
MaxDeckId == 2
MaxLinks == 2

\* a link of a search page: the number of the deck it points to, 0 for a link
\* that is no /decks/<number>/ link
Links == 0..MaxDeckId
Markups == SeqsUpTo(Links, MaxLinks)

\* the duplicate-free lists over a set, in every order
Perms(S) ==
    {f \in [1..Cardinality(S) -> S] : \A i, j \in 1..Cardinality(S) : f[i] = f[j] => i = j}

\* a variant that keeps the list as it is
list_set_keeps_duplicates(l) == {l}

\* what list(set(l)) can be: the distinct elements of l, in some order
ListSet(l) == Perms(Range(l))

\* the hrefs matching /decks/<number>/..., as the link loop collects them
RECURSIVE DeckLinks(_)
DeckLinks(markup) ==
    IF markup = <<>> THEN <<>>
    ELSE IF Head(markup) # 0
         THEN <<Head(markup)>> \o DeckLinks(Tail(markup))
         ELSE DeckLinks(Tail(markup))

\* what _extract_deck_ids_from_html can return for a page
ExtractDeckIds(markup) == ListSet(DeckLinks(markup))

\* a variant whose loop goes on after a page without ids
page_never_stops(page_deck_ids) == FALSE

\* `if not page_deck_ids: break`
StopsPagination(page_deck_ids) == page_deck_ids = <<>>

\* a variant that takes no page for the last one
last_page_never(p, maxp) == FALSE

\* `if page >= max_pages: break`, ahead of the politeness delay
LastPage(p, maxp) == p >= maxp

\* the function is called
DiscoverStart ==
    /\ dpc \in {"idle", "done"}
    /\ \E m \in 1..MaxPages : max_pages' = m
    /\ dpc' = "loop"
    /\ page' = 1
    /\ all_deck_ids' = <<>>
    /\ unique_deck_ids' = <<>>
    /\ pages_seen' = <<>>
    /\ seen_ids' = {}
    /\ delays' = 0

\* discover_deck_ids_by_commander(page) fails: it returns [], the loop breaks
DiscoverPageFails ==
    /\ dpc = "loop" /\ page <= max_pages
    /\ pages_seen' = Append(pages_seen, <<>>)
    /\ dpc' = "dedup"
    /\ UNCHANGED <<max_pages, page, all_deck_ids, unique_deck_ids, seen_ids, delays>>

\* one page is fetched and its ids extracted: break on no ids, else extend
\* all_deck_ids and break at max_pages or go on to the politeness delay
DiscoverPage ==
    /\ dpc = "loop" /\ page <= max_pages
    /\ \E markup \in Markups :
       \E page_deck_ids \in ExtractDeckIds(markup) :
          /\ pages_seen' = Append(pages_seen, page_deck_ids)
          /\ seen_ids' = seen_ids \cup (Range(markup) \ {0})
          /\ IF StopsPagination(page_deck_ids)
             THEN /\ dpc' = "dedup"
                  /\ UNCHANGED all_deck_ids
             ELSE /\ all_deck_ids' = all_deck_ids \o page_deck_ids
                  /\ dpc' = IF LastPage(page, max_pages) THEN "dedup" ELSE "delay"
    /\ UNCHANGED <<max_pages, page, unique_deck_ids, delays>>

\* time.sleep(delay); page += 1
DiscoverDelay ==
    /\ dpc = "delay"
    /\ delays' = delays + 1
    /\ page' = page + 1
    /\ dpc' = "loop"
    /\ UNCHANGED <<max_pages, all_deck_ids, unique_deck_ids, pages_seen, seen_ids>>

\* unique_deck_ids = list(set(all_deck_ids)); return
DiscoverReturn ==
    /\ dpc = "dedup"
    /\ \E r \in ListSet(all_deck_ids) : unique_deck_ids' = r
    /\ dpc' = "done"
    /\ UNCHANGED <<max_pages, page, all_deck_ids, pages_seen, seen_ids, delays>>

InitDisc ==
    /\ dpc = "idle"
    /\ max_pages = 1
    /\ page = 1
    /\ all_deck_ids = <<>>
    /\ unique_deck_ids = <<>>
    /\ pages_seen = <<>>
    /\ seen_ids = {}
    /\ delays = 0

ParkedDisc == InitDisc

NextDisc ==
    \/ DiscoverStart /\ UNCHANGED <<dbVars, jobVars, reqVars, restVars>>
    \/ DiscoverPageFails /\ UNCHANGED <<dbVars, jobVars, reqVars, restVars>>
    \/ DiscoverPage /\ UNCHANGED <<dbVars, jobVars, reqVars, restVars>>
    \/ DiscoverDelay /\ UNCHANGED <<dbVars, jobVars, reqVars, restVars>>
    \/ DiscoverReturn /\ UNCHANGED <<dbVars, jobVars, reqVars, restVars>>

\* the ids the function returns for a given sequence of page results, as a set
RECURSIVE IdsOfPages(_, _, _)
IdsOfPages(pages, p, maxp) ==
    IF p > maxp \/ p > Len(pages) \/ pages[p] = <<>>
    THEN {}
    ELSE Range(pages[p]) \cup IdsOfPages(pages, p + 1, maxp)

\* every reordering of a sequence
Reorderings(seq) ==
    {[i \in 1..Len(seq) |-> seq[f[i]]] : f \in Perms(1..Len(seq))}

(***************************************************************************)
(* The store under persistence and normalization                           *)
(***************************************************************************)
OracleIds == {"o1"}

\* UPDATE deck_cards SET oracle_id = ? WHERE deck_id = ? AND name = ?
update_card_oracle_id(rows, deck_id, card_name, oracle_id) ==
    [i \in 1..Len(rows) |->
        IF rows[i].deck_id = deck_id /\ rows[i].name = card_name
        THEN [rows[i] EXCEPT !.oracle_id = oracle_id]
        ELSE rows[i]]

\* SELECT DISTINCT deck_id, name ... FROM deck_cards WHERE oracle_id IS NULL
get_decks_needing_normalization ==
    {<<deck_cards[i].deck_id, deck_cards[i].name>> :
        i \in {j \in 1..Len(deck_cards) : deck_cards[j].oracle_id = NULL}}

\* the normalization of one pending card whose name resolves
NormalizeCard ==
    /\ \E pending \in get_decks_needing_normalization, oracle_id \in OracleIds :
          deck_cards' = update_card_oracle_id(deck_cards, pending[1], pending[2], oracle_id)
    /\ UNCHANGED <<sources, decks, deck_commanders, lastPayload, repersisted>>

NextEnrich ==
    \/ \E s \in SourceNames, p \in Payloads : PersistDeck(s, p) /\ UNCHANGED <<jobVars, reqVars, discVars, restVars>>
    \/ NormalizeCard /\ UNCHANGED <<jobVars, reqVars, discVars, restVars>>

\* the commander rows of a deck, read back
StoredCommanders(deck_id) ==
    LET rows == SelectSeq(deck_commanders, LAMBDA r : r.deck_id = deck_id)
    IN  [i \in 1..Len(rows) |-> [name |-> rows[i].name, oracle_id |-> rows[i].oracle_id]]

(***************************************************************************)
(* Batch discovery: discover_deck_ids_for_commanders                       *)
(***************************************************************************)
MaxCommanders == 2
BatchMaxPages == 2

Commanders == {"Atraxa", "Krenko"}

\* what one search page can come to: its request fails (the page function then
\* returns []), or it yields these ids
BatchPageResults ==
    {[failed |-> TRUE, ids |-> <<>>]}
    \cup {[failed |-> FALSE, ids |-> l] : l \in {<<>>, <<1>>, <<1, 2>>}}

\* the page of a paginated search at which the request failed, 0 when every
\* page that was requested was answered
FailedPage(scenario, maxp) ==
    LET reached(i) == \A j \in 1..(i - 1) : scenario[j].ids # <<>>
        F == {i \in 1..Len(scenario) : i <= maxp /\ scenario[i].failed /\ reached(i)}
    IN  IF F = {} THEN 0 ELSE CHOOSE i \in F : \A j \in F : i <= j

\* what discover_top_viewed_deck_ids_by_commander can return when its pages
\* come to `scenario`
TopViewedDeckIds(scenario, maxp) ==
    Perms(IdsOfPages([i \in 1..Len(scenario) |-> scenario[i].ids], 1, maxp))

\* a variant whose entry for a failed commander is not empty
failed_entry_keeps_ids(commander_name) ==
    [commander |-> commander_name, deck_ids |-> <<1>>]

\* the except branch: "still add the commander with empty deck_ids list"
FailedEntry(commander_name) ==
    [commander |-> commander_name, deck_ids |-> <<>>]

NoFailure == [raised |-> FALSE, page |-> 0]

\* the function is called
BatchStart ==
    /\ bpc \in {"idle", "done"}
    /\ commander_names' \in SeqsUpTo(Commanders, MaxCommanders)
    /\ batch_max_pages' \in 1..BatchMaxPages
    /\ results' = <<>>
    /\ failures' = <<>>
    /\ bpc' = "loop"

\* one commander of the list: its paginated search returns
BatchCommander ==
    /\ bpc = "loop" /\ Len(results) < Len(commander_names)
    /\ \E scenario \in [1..batch_max_pages -> BatchPageResults] :
       \E deck_ids \in TopViewedDeckIds(scenario, batch_max_pages) :
          /\ results' = Append(results, [commander |-> commander_names[Len(results) + 1],
                                         deck_ids |-> deck_ids])
          /\ failures' = Append(failures,
                                [raised |-> FALSE,
                                 page |-> FailedPage(scenario, batch_max_pages)])
    /\ UNCHANGED <<bpc, commander_names, batch_max_pages>>

\* one commander of the list: its paginated search raises
BatchCommanderRaises ==
    /\ bpc = "loop" /\ Len(results) < Len(commander_names)
    /\ results' = Append(results, FailedEntry(commander_names[Len(results) + 1]))
    /\ failures' = Append(failures, [raised |-> TRUE, page |-> 0])
    /\ UNCHANGED <<bpc, commander_names, batch_max_pages>>

\* the list is exhausted: return results
BatchReturn ==
    /\ bpc = "loop" /\ Len(results) = Len(commander_names)
    /\ bpc' = "done"
    /\ UNCHANGED <<commander_names, batch_max_pages, results, failures>>

InitBatch ==
    /\ bpc = "idle"
    /\ commander_names = <<>>
    /\ batch_max_pages = 1
    /\ results = <<>>
    /\ failures = <<>>

ParkedBatch == InitBatch


NextBatch ==
    \/ BatchStart /\ UNCHANGED <<dbVars, jobVars, reqVars, discVars, normVars, extVars>>
    \/ BatchCommander /\ UNCHANGED <<dbVars, jobVars, reqVars, discVars, normVars, extVars>>
    \/ BatchCommanderRaises /\ UNCHANGED <<dbVars, jobVars, reqVars, discVars, normVars, extVars>>
    \/ BatchReturn /\ UNCHANGED <<dbVars, jobVars, reqVars, discVars, normVars, extVars>>

(***************************************************************************)
(* Card name normalization: ScryfallNormalizer (scryfall.py)               *)
(*                                                                         *)
(* A name is the sequence of its characters. The characters outside ASCII  *)
(* are written u_circ, U_circ (u with circumflex), e_acute, E_acute and    *)
(* ae_lig, AE_lig.                                                         *)
(***************************************************************************)
\* str.lower(), on the characters the names of the model are made of
ToLower ==
    [c \in {"D", "E", "F", "H", "I", "L", "M", "O", "R", "S", "T", "X",
            "U_circ", "E_acute", "AE_lig"} |->
        CASE c = "D" -> "d" [] c = "E" -> "e" [] c = "F" -> "f" [] c = "H" -> "h"
          [] c = "I" -> "i" [] c = "L" -> "l" [] c = "M" -> "m" [] c = "O" -> "o"
          [] c = "R" -> "r" [] c = "S" -> "s" [] c = "T" -> "t" [] c = "X" -> "x"
          [] c = "U_circ" -> "u_circ" [] c = "E_acute" -> "e_acute"
          [] c = "AE_lig" -> "ae_lig"]

Lower(name) ==
    [i \in 1..Len(name) |-> IF name[i] \in DOMAIN ToLower THEN ToLower[name[i]] ELSE name[i]]

\* ' '.join(name.split()): a blank is kept when it is the first of a run that
\* stands between two words
RECURSIVE JoinSplit(_, _)
JoinSplit(name, i) ==
    IF i > Len(name) THEN <<>>
    ELSE LET keep == \/ name[i] # " "
                     \/ /\ i > 1
                        /\ name[i - 1] # " "
                        /\ \E j \in (i + 1)..Len(name) : name[j] # " "
         IN  (IF keep THEN <<name[i]>> ELSE <<>>) \o JoinSplit(name, i + 1)

\* str.replace(old, new) for a one-character old
RECURSIVE Replace(_, _, _)
Replace(name, old, new) ==
    IF name = <<>> THEN <<>>
    ELSE (IF Head(name) = old THEN new ELSE <<Head(name)>>) \o Replace(Tail(name), old, new)

\* str.replace('', new): new goes before every character and at the end
RECURSIVE ReplaceEmpty(_, _)
ReplaceEmpty(name, new) ==
    IF name = <<>> THEN new
    ELSE new \o <<Head(name)>> \o ReplaceEmpty(Tail(name), new)

_normalize_name(name) ==
    IF name = <<>> THEN <<>>
    ELSE LET lowered == Lower(name)
             joined == JoinSplit(lowered, 1)
             ae == Replace(joined, "ae_lig", <<"a", "e">>)
             e == Replace(ae, "e_acute", <<"e">>)
             apostrophes == ReplaceEmpty(e, <<"'">>)
         IN  Replace(apostrophes, "\"", <<"\"">>)

\* the variations resolve_card_name tries, in order
Variations(normalized) ==
    <<Replace(normalized, "\"", <<>>),
      Replace(normalized, "'", <<>>),
      Replace(normalized, "'", <<"'">>),
      Replace(normalized, ",", <<>>)>>

basic_lands ==
    [n \in {<<"p", "l", "a", "i", "n", "s">>, <<"i", "s", "l", "a", "n", "d">>,
            <<"s", "w", "a", "m", "p">>, <<"m", "o", "u", "n", "t", "a", "i", "n">>,
            <<"f", "o", "r", "e", "s", "t">>} |->
        CASE n = <<"p", "l", "a", "i", "n", "s">> -> "bc71ebf6-2056-41f7-be35-b2e5c34afa99"
          [] n = <<"i", "s", "l", "a", "n", "d">> -> "8cff7b58-bd58-4911-a6a3-bdd1dbf71a72"
          [] n = <<"s", "w", "a", "m", "p">> -> "a3fb7228-e76b-4e96-a40e-20b5fed75685"
          [] n = <<"m", "o", "u", "n", "t", "a", "i", "n">> -> "8cf3dce3-01e4-4fe2-ac44-b13b6fe8799e"
          [] n = <<"f", "o", "r", "e", "s", "t">> -> "b34bb2dc-c1af-4d77-b0b3-a0fb342a5fc6"]

\* oracle_cache[key] = oracle_id
Put(cache, key, oracle_id) ==
    [k \in DOMAIN cache \cup {key} |-> IF k = key THEN oracle_id ELSE cache[k]]

EmptyCache == [k \in {} |-> NULL]

\* str.strip()
RECURSIVE Strip(_)
Strip(name) ==
    IF name = <<>> THEN <<>>
    ELSE IF Head(name) = " " THEN Strip(Tail(name))
    ELSE IF name[Len(name)] = " " THEN Strip(SubSeq(name, 1, Len(name) - 1))
    ELSE name

\* name.split('//')
RECURSIVE SplitSlashes(_)
SplitSlashes(name) ==
    LET at == {i \in 1..(Len(name) - 1) : name[i] = "/" /\ name[i + 1] = "/"}
    IN  IF at = {} THEN <<name>>
        ELSE LET i == CHOOSE k \in at : \A j \in at : k <= j
             IN  <<SubSeq(name, 1, i - 1)>> \o SplitSlashes(SubSeq(name, i + 2, Len(name)))

\* oracle_cache[_normalize_name(n)] = oracle_id for every name of a list
RECURSIVE PutNames(_, _, _)
PutNames(cache, names, oracle_id) ==
    IF names = <<>> THEN cache
    ELSE PutNames(Put(cache, _normalize_name(Head(names)), oracle_id), Tail(names), oracle_id)

\* a variant that indexes a card under its primary name only
names_primary_only(card) == <<card.name>>

\* the names one card of the bulk data is indexed under, in the order of the loop
\* body: its name, its face names, the sides of a split name, its printed name
NamesOfCard(card) ==
    <<card.name>>
    \o SelectSeq(card.card_faces, LAMBDA n : n # <<>>)
    \o (IF \E i \in 1..(Len(card.name) - 1) : card.name[i] = "/" /\ card.name[i + 1] = "/"
        THEN LET parts == SplitSlashes(card.name)
             IN  [i \in 1..Len(parts) |-> Strip(parts[i])]
        ELSE <<>>)
    \o (IF card.printed_name # <<>> THEN <<card.printed_name>> ELSE <<>>)

\* the loop over the cards of the bulk data; a card without oracle_id raises
RECURSIVE IndexCards(_, _)
IndexCards(cache, cards) ==
    IF cards = <<>> THEN [ok |-> TRUE, cache |-> cache]
    ELSE IF Head(cards).oracle_id = NULL THEN [ok |-> FALSE, cache |-> cache]
    ELSE IndexCards(PutNames(cache, NamesOfCard(Head(cards)), Head(cards).oracle_id),
                    Tail(cards))

MaxOps == 3
MaxHours == 2
refresh_cadence_hours == 1

LimDulHex == <<"L", "i", "m", "-", "D", "u_circ", "l", "'", "s", " ", "H", "e", "x">>
LimDulHexPlain == <<"L", "i", "m", "-", "D", "u", "l", "'", "s", " ", "H", "e", "x">>
LimDulHexLower == <<"l", "i", "m", "-", "d", "u", "l", "'", "s", " ", "h", "e", "x">>
Forest == <<"F", "o", "r", "e", "s", "t">>
FireIce == <<"F", "i", "r", "e", " ", "/", "/", " ", "I", "c", "e">>

InputNames == {LimDulHex, LimDulHexPlain, LimDulHexLower, Forest}

Card(oracle_id, name, card_faces) ==
    [oracle_id |-> oracle_id, name |-> name, card_faces |-> card_faces,
     printed_name |-> <<>>]

LimDulCard == Card("hex", LimDulHex, <<>>)
ForestCard == Card("forest", Forest, <<>>)
\* a split card with two faces and a printed (localized) name
FireIceCard ==
    [Card("fire-ice", FireIce, <<<<"F", "i", "r", "e">>, <<"I", "c", "e">>>>)
        EXCEPT !.printed_name = <<"F", "e", "u">>]
\* a second entry of the bulk data named Forest, with an oracle_id of its own
ForestToken == Card("forest-token", Forest, <<>>)
\* an entry of the bulk data without the key oracle_id
BadCard == Card(NULL, Forest, <<>>)

Datasets ==
    {<<>>, <<LimDulCard>>, <<ForestCard, FireIceCard>>, <<LimDulCard, BadCard>>,
     <<ForestToken, ForestCard>>}

\* the local bulk file: whether it exists and can be loaded, the cards it
\* holds, and whether its mtime is at least the remote's updated_at
Missing == [state |-> "missing", cards |-> <<>>, fresh |-> FALSE]
Corrupt == [state |-> "corrupt", cards |-> <<>>, fresh |-> TRUE]
Present(cards) == [state |-> "present", cards |-> cards, fresh |-> TRUE]
\* a file written before the remote data was last published
Outdated(cards) == [state |-> "present", cards |-> cards, fresh |-> FALSE]

NeverUpdated == [set |-> FALSE, at |-> 0]

\* how a download goes: it succeeds, its first request fails, or it breaks off
\* while the file is being written
DownloadOutcomes == {"ok", "fail", "truncated"}

\* download_oracle_bulk; an existing file that is not older than the remote
\* data is left alone
download_oracle_bulk(file, rem, outcome) ==
    IF outcome = "fail" THEN [ok |-> FALSE, file |-> file]
    ELSE IF file.state # "missing" /\ file.fresh THEN [ok |-> TRUE, file |-> file]
    ELSE IF outcome = "ok" THEN [ok |-> TRUE, file |-> Present(rem)]
    ELSE [ok |-> FALSE, file |-> Corrupt]

build_name_resolver(file, cache, updated, clk, rem, outcome) ==
    LET d == IF file.state = "missing"
             THEN download_oracle_bulk(file, rem, outcome)
             ELSE [ok |-> TRUE, file |-> file]
    IN  IF ~d.ok
        THEN [ok |-> FALSE, file |-> d.file, cache |-> cache, last_updated |-> updated]
        ELSE IF d.file.state = "corrupt"
        THEN [ok |-> FALSE, file |-> d.file, cache |-> EmptyCache, last_updated |-> updated]
        ELSE LET r == IndexCards(EmptyCache, d.file.cards)
             IN  [ok |-> r.ok, file |-> d.file, cache |-> r.cache,
                  last_updated |-> IF r.ok THEN [set |-> TRUE, at |-> clk] ELSE updated]

needs_refresh(updated, clk) ==
    \/ ~updated.set
    \/ clk - updated.at > refresh_cadence_hours

\* a variant that takes the entry out of the cache when it is found
direct_lookup_pops(cache, normalized) ==
    IF normalized \in DOMAIN cache
    THEN [hit |-> TRUE, oracle_id |-> cache[normalized],
          cache |-> [k \in DOMAIN cache \ {normalized} |-> cache[k]]]
    ELSE [hit |-> FALSE, oracle_id |-> NULL, cache |-> cache]

\* `if normalized in self.oracle_cache: return self.oracle_cache[normalized]`
DirectLookup(cache, normalized) ==
    IF normalized \in DOMAIN cache
    THEN [hit |-> TRUE, oracle_id |-> cache[normalized], cache |-> cache]
    ELSE [hit |-> FALSE, oracle_id |-> NULL, cache |-> cache]

\* resolve_card_name after the index check: direct lookup, the variations in
\* order, the basic lands
LookUp(cache, name) ==
    LET normalized == _normalize_name(name)
        direct == DirectLookup(cache, normalized)
        variations == Variations(normalized)
        hits == {i \in 1..Len(variations) : variations[i] \in DOMAIN cache}
    IN  IF direct.hit
        THEN [result |-> direct.oracle_id, via |-> "direct", cache |-> direct.cache]
        ELSE IF hits # {}
        THEN LET i == CHOOSE k \in hits : \A j \in hits : k <= j
             IN  [result |-> cache[variations[i]], via |-> "variation",
                  cache |-> Put(cache, normalized, cache[variations[i]])]
        ELSE IF normalized \in DOMAIN basic_lands
        THEN [result |-> basic_lands[normalized], via |-> "basic_land",
              cache |-> Put(cache, normalized, basic_lands[normalized])]
        ELSE [result |-> NULL, via |-> "none", cache |-> cache]

\* the file build_name_resolver loads exists and is not older than the remote
UpToDate(file) == file.state # "missing" /\ file.fresh

Event(op, name, result, via, stale, built, built_ok, fresh) ==
    [op |-> op, name |-> name, result |-> result, via |-> via, stale |-> stale,
     built |-> built, built_ok |-> built_ok, fresh |-> fresh]

\* resolve_card_name(name)
ResolveCardName ==
    /\ Len(nlog) < MaxOps
    /\ \E name \in InputNames, outcome \in DownloadOutcomes :
          LET stale == needs_refresh(last_updated, clock)
              builds == DOMAIN oracle_cache = {}
              b == IF builds
                   THEN build_name_resolver(bulk_file, oracle_cache, last_updated, clock,
                                            remote, outcome)
                   ELSE [ok |-> TRUE, file |-> bulk_file, cache |-> oracle_cache,
                         last_updated |-> last_updated]
              l == LookUp(b.cache, name)
          IN  /\ bulk_file' = b.file
              /\ last_updated' = b.last_updated
              /\ IF ~b.ok
                 THEN /\ oracle_cache' = b.cache
                      /\ nlog' = Append(nlog, Event("resolve", name, NULL, "build_failed",
                                                    stale, builds, FALSE, UpToDate(b.file)))
                 ELSE /\ oracle_cache' = l.cache
                      /\ nlog' = Append(nlog, Event("resolve", name, l.result, l.via,
                                                    stale, builds, builds, UpToDate(b.file)))
    /\ UNCHANGED <<remote, clock>>

\* the start of normalize_batch and normalize_all_pending: a download when the
\* data needs a refresh, then the rebuild of the index
RebuildIndex ==
    /\ Len(nlog) < MaxOps
    /\ \E outcome \in DownloadOutcomes, outcome2 \in DownloadOutcomes :
          LET stale == needs_refresh(last_updated, clock)
              d == IF stale
                   THEN download_oracle_bulk(bulk_file, remote, outcome)
                   ELSE [ok |-> TRUE, file |-> bulk_file]
              b == build_name_resolver(d.file, oracle_cache, last_updated, clock,
                                       remote, outcome2)
          IN  IF ~d.ok
              THEN /\ bulk_file' = d.file
                   /\ nlog' = Append(nlog, Event("rebuild", <<>>, NULL, "download_failed",
                                                 stale, FALSE, FALSE, UpToDate(d.file)))
                   /\ UNCHANGED <<oracle_cache, last_updated>>
              ELSE /\ bulk_file' = b.file
                   /\ oracle_cache' = b.cache
                   /\ last_updated' = b.last_updated
                   /\ nlog' = Append(nlog, Event("rebuild", <<>>, NULL, "build",
                                                 stale, TRUE, b.ok, UpToDate(b.file)))
    /\ UNCHANGED <<remote, clock>>

\* an hour passes; before the first build the time of day makes no difference
TickHour ==
    /\ clock < MaxHours
    /\ last_updated.set
    /\ Len(nlog) < MaxOps
    /\ clock' = clock + 1
    /\ UNCHANGED <<bulk_file, remote, oracle_cache, last_updated, nlog>>

InitNorm ==
    /\ remote \in Datasets
    /\ bulk_file \in {Missing, Corrupt, Present(remote)}
    /\ oracle_cache = EmptyCache
    /\ last_updated = NeverUpdated
    /\ clock = 0
    /\ nlog = <<>>

\* the same, where the remote may have been updated since the local file was
\* written
InitNormOutdated ==
    /\ remote \in Datasets
    /\ bulk_file \in {Missing, Corrupt, Present(remote), Outdated(remote)}
    /\ oracle_cache = EmptyCache
    /\ last_updated = NeverUpdated
    /\ clock = 0
    /\ nlog = <<>>

ParkedNorm ==
    /\ remote = <<>>
    /\ bulk_file = Missing
    /\ oracle_cache = EmptyCache
    /\ last_updated = NeverUpdated
    /\ clock = 0
    /\ nlog = <<>>

NextNorm ==
    \/ ResolveCardName /\ UNCHANGED <<dbVars, jobVars, reqVars, discVars, batchVars, extVars>>
    \/ RebuildIndex /\ UNCHANGED <<dbVars, jobVars, reqVars, discVars, batchVars, extVars>>
    \/ TickHour /\ UNCHANGED <<dbVars, jobVars, reqVars, discVars, batchVars, extVars>>

(***************************************************************************)
(* The normalization job: run_normalization (ingestion_job.py),            *)
(* normalize_all_pending (normalizer.py) and the table unmapped_cards      *)
(* (database.py).  The rows of unmapped_cards are modelled without their   *)
(* first_seen and last_seen timestamps.                                    *)
(***************************************************************************)
MaxNormRuns == 1
MaxLogged == 3

\* a variant that inserts a row on every call
log_unmapped_card_always_inserts(tbl, card_name) ==
    Append(tbl, [name |-> card_name, frequency |-> 1])

\* INSERT INTO unmapped_cards ... ON CONFLICT(name) DO UPDATE SET
\* frequency = frequency + 1
log_unmapped_card(tbl, card_name) ==
    IF \E i \in 1..Len(tbl) : tbl[i].name = card_name
    THEN [i \in 1..Len(tbl) |->
             IF tbl[i].name = card_name
             THEN [tbl[i] EXCEPT !.frequency = @ + 1]
             ELSE tbl[i]]
    ELSE Append(tbl, [name |-> card_name, frequency |-> 1])

\* what resolve_card_name answers for each stored name during one run
Resolvers == [CardNames -> OracleIds \cup {NULL}]

\* what the start of normalize_all_pending does: the refresh and the build
\* succeed, the download fails, the build fails, or an exception is raised
PrepareOutcomes == {"ok", "download_failed", "build_failed", "raise"}

\* the orders in which the SELECT without ORDER BY may return a set of rows
Orderings(S) ==
    {seq \in [1..Cardinality(S) -> S] : \A x \in S : \E i \in DOMAIN seq : seq[i] = x}

\* the locals of normalize_all_pending before its loop
LoopStart(rows, tbl) ==
    [rows |-> rows, unmapped |-> tbl, total_normalized |-> 0, total_failed |-> 0,
     processed_decks |-> {}, missed |-> <<>>]

\* the loop of normalize_all_pending from pending_cards[i] on
RECURSIVE NormalizeLoop(_, _, _, _)
NormalizeLoop(pending_cards, i, resolve, st) ==
    IF i > Len(pending_cards)
    THEN st
    ELSE LET deck_id == pending_cards[i][1]
             card_name == pending_cards[i][2]
             oracle_id == resolve[card_name]
         IN  IF deck_id \in st.processed_decks
             THEN NormalizeLoop(pending_cards, i + 1, resolve, st)
             ELSE IF oracle_id # NULL
             THEN NormalizeLoop(pending_cards, i + 1, resolve,
                      [st EXCEPT !.rows = update_card_oracle_id(@, deck_id, card_name,
                                                                oracle_id),
                                 !.total_normalized = @ + 1,
                                 !.processed_decks = @ \cup {deck_id}])
             ELSE NormalizeLoop(pending_cards, i + 1, resolve,
                      [st EXCEPT !.unmapped = log_unmapped_card(@, card_name),
                                 !.total_failed = @ + 1,
                                 !.processed_decks = @ \cup {deck_id},
                                 !.missed = Append(@, <<deck_id, card_name>>)])

\* the number of times each name of a sequence of (deck, name) pairs occurs
CountOf(missed, name) == Cardinality({i \in 1..Len(missed) : missed[i][2] = name})

\* last_seen = datetime.utcnow() of a later call, when a call was made
Seen(seen, missed) == IF missed = <<>> THEN seen ELSE 1 - seen

\* one run_normalization call; the record kept of it
NormRun(prepare, record, result, missed) ==
    [prepare |-> prepare, record |-> record, result |-> result, missed |-> missed]

\* IngestionJob.__init__: the normalizer and the enabled adapters are
\* constructed; a constructor that raises (a missing config key) ends it
ConstructJob ==
    /\ ingestion_job = "unbuilt"
    /\ ingestion_job' \in {"built", "failed"}
    /\ UNCHANGED <<unmapped_cards, logged, last_seen, nruns>>
    /\ UNCHANGED <<dbVars, jobVars>>

\* run_normalization
RunNormalization ==
    /\ ingestion_job = "built"
    /\ Len(nruns) < MaxNormRuns
    /\ \E prepare \in PrepareOutcomes, resolve \in Resolvers,
          pending_cards \in Orderings(get_decks_needing_normalization) :
          LET st == NormalizeLoop(pending_cards, 1, resolve,
                                  LoopStart(deck_cards, unmapped_cards))
          IN  CASE prepare = "raise" ->
                     /\ logs' = log_ingestion(logs, "scryfall", "normalize", "error",
                                              0, 0, 1, "exception")
                     /\ nruns' = Append(nruns, NormRun(prepare, Len(logs) + 1, ErrorResult,
                                                       <<>>))
                     /\ UNCHANGED <<deck_cards, unmapped_cards, logged, last_seen>>
                [] prepare \in {"download_failed", "build_failed"} ->
                     /\ logs' = log_ingestion(logs, "scryfall", "normalize", "error",
                                              0, 0, 0, prepare)
                     /\ nruns' = Append(nruns, NormRun(prepare, Len(logs) + 1,
                                                Result("error", NULL, NULL, prepare),
                                                <<>>))
                     /\ UNCHANGED <<deck_cards, unmapped_cards, logged, last_seen>>
                [] OTHER ->
                     /\ \A n \in CardNames : logged[n] + CountOf(st.missed, n) <= MaxLogged
                     /\ deck_cards' = st.rows
                     /\ unmapped_cards' = st.unmapped
                     /\ logged' = [n \in CardNames |-> logged[n] + CountOf(st.missed, n)]
                     /\ last_seen' = Seen(last_seen, st.missed)
                     /\ logs' = log_ingestion(logs, "scryfall", "normalize", "success",
                                              Cardinality(st.processed_decks),
                                              st.total_normalized + st.total_failed,
                                              st.total_failed, "")
                     /\ nruns' = Append(nruns, NormRun(prepare, Len(logs) + 1,
                                                Result("success", NULL, NULL, NULL),
                                                st.missed))
    /\ UNCHANGED <<sources, decks, deck_commanders, lastPayload, repersisted>>
    /\ UNCHANGED <<adapters, job, calls, ingestion_job>>

\* the table is empty, or holds a name logged once by an earlier process
InitUnm ==
    /\ \E earlier \in SUBSET {"Sol Ring"} :
          /\ logged = [n \in CardNames |-> IF n \in earlier THEN 1 ELSE 0]
          /\ unmapped_cards = IF earlier = {} THEN <<>>
                              ELSE <<[name |-> "Sol Ring", frequency |-> 1]>>
    /\ last_seen = 0
    /\ nruns = <<>>
    /\ ingestion_job = "unbuilt"

ParkedUnm ==
    /\ unmapped_cards = <<>>
    /\ logged = [n \in CardNames |-> 0]
    /\ last_seen = 0
    /\ nruns = <<>>
    /\ ingestion_job = "unbuilt"

\* the decks ingested before and between the normalization runs
PendingPayloads ==
    {p \in Payloads : /\ p.commanders = <<>>
                     /\ p.cards \in {<<CardEntry("Sol Ring")>>,
                                     <<CardEntry("Sol Ring"), CardEntry("Forest")>>}}

NextNormJob ==
    \/ \E s \in SourceNames, p \in PendingPayloads : PersistDeck(s, p) /\ UNCHANGED <<jobVars, reqVars, discVars, restVars>>
    \/ ConstructJob /\ UNCHANGED <<reqVars, discVars, batchVars, normVars, moxVars, schedVars, deckVars>>
    \/ RunNormalization /\ UNCHANGED <<reqVars, discVars, batchVars, normVars, moxVars, schedVars, deckVars>>

(***************************************************************************)
(* Repeated sweeps: normalize_all_pending run again and again over a store *)
(* that was filled before the normalizer was constructed, with a ready     *)
(* index in which Forest resolves and Sol Ring does not.                   *)
(***************************************************************************)
\* resolve_card_name under the ready index
ReadyIndex == [n \in CardNames |-> IF n = "Forest" THEN "o1" ELSE NULL]

\* frequencies above MaxLogged are not told apart: the sweep never reads them
Saturate(tbl) ==
    [i \in 1..Len(tbl) |->
        [tbl[i] EXCEPT !.frequency = IF @ > MaxLogged THEN MaxLogged ELSE @]]

\* a deck is ingested before the normalizer exists
IngestBeforeJob ==
    /\ ingestion_job = "unbuilt"
    /\ \E s \in SourceNames, p \in PendingPayloads : PersistDeck(s, p)
    /\ UNCHANGED <<jobVars, unmVars>>

\* one normalize_all_pending over the ready index
Sweep ==
    /\ ingestion_job = "built"
    /\ \E pending_cards \in Orderings(get_decks_needing_normalization) :
          LET st == NormalizeLoop(pending_cards, 1, ReadyIndex,
                                  LoopStart(deck_cards, unmapped_cards))
          IN  /\ deck_cards' = st.rows
              /\ unmapped_cards' = Saturate(st.unmapped)
              /\ logged' = [n \in CardNames |->
                               IF logged[n] + CountOf(st.missed, n) > MaxLogged
                               THEN MaxLogged
                               ELSE logged[n] + CountOf(st.missed, n)]
              /\ last_seen' = Seen(last_seen, st.missed)
    /\ UNCHANGED <<sources, decks, deck_commanders, lastPayload, repersisted>>
    /\ UNCHANGED <<jobVars, nruns, ingestion_job>>

SweepRest == <<reqVars, discVars, batchVars, normVars, moxVars, schedVars, deckVars>>

NextSweep ==
    \/ IngestBeforeJob /\ UNCHANGED SweepRest
    \/ ConstructJob /\ UNCHANGED SweepRest
    \/ Sweep /\ UNCHANGED SweepRest

\* the sweep is run again and again
SweepFairness == WF_vars(Sweep /\ UNCHANGED SweepRest)

(***************************************************************************)
(* The Moxfield adapter and its browser session (moxfield.py), driven by   *)
(* run_moxfield_discovery and run_moxfield_export (ingestion_job.py).      *)
(* Deck ids are modelled by their number: discover_decks stops early only  *)
(* at 100 ids, which the bounded runs do not reach.                        *)
(***************************************************************************)
MaxMoxJobs == 2
MoxCommanders == 2
MoxMaxPages == 2
MaxMoxDecks == 1
MaxBrowserOps == 4

\* what the direct request for one search page gives: public decks, no
\* decks, or an exception (of the request or of reading its body)
PageOutcomes == {"decks", "empty", "fail"}
\* what the direct request of fetch_deck gives
FetchOutcomes == {"ok", "fail"}
\* the browser: whether webdriver.Chrome() starts, whether the page loads
BrowserOutcomes == [init_ok : BOOLEAN, page_ok : BOOLEAN]

NoDriver == NULL
Chrome == "chrome"

\* a variant whose _init_selenium starts a browser whether one is held or not
selenium_request_always_inits(drv, browser) ==
    IF ~browser.init_ok
    THEN [driver |-> drv, html |-> FALSE, created |-> FALSE]
    ELSE [driver |-> Chrome, html |-> browser.page_ok, created |-> TRUE]

\* _selenium_request with its lazy _init_selenium: the driver afterwards,
\* whether page source was returned, and whether webdriver.Chrome() started a
\* new session
_selenium_request(drv, browser) ==
    IF drv = NoDriver /\ ~browser.init_ok
    THEN [driver |-> NoDriver, html |-> FALSE, created |-> FALSE]
    ELSE [driver |-> Chrome, html |-> browser.page_ok, created |-> drv = NoDriver]

\* the page loop of _discover_by_commander from page p on: whether a direct
\* request failed and whether deck_ids holds ids at its end
RECURSIVE PageLoop(_, _, _)
PageLoop(pages, p, found) ==
    IF p > Len(pages)
    THEN [failed |-> FALSE, found |-> found]
    ELSE CASE pages[p] = "empty" -> [failed |-> FALSE, found |-> found]
           [] pages[p] = "fail" -> [failed |-> TRUE, found |-> found]
           [] OTHER -> PageLoop(pages, p + 1, TRUE)

\* one adapter operation, as the history keeps it
MoxOp(op, direct_failed, browser_used, flag_before) ==
    [op |-> op, direct_failed |-> direct_failed, browser_used |-> browser_used,
     flag_before |-> flag_before]

\* self.use_selenium after the page loop: set by a failed request, never reset
FallbackFlag(flag, failed) == flag \/ failed

\* the adapter object: its driver, its flag use_selenium, and the history of
\* its operations
Adapter(drv, flag, ops) == [driver |-> drv, use_selenium |-> flag, ops |-> ops]

\* _discover_by_commander on the adapter a: the adapter afterwards and whether
\* it returns deck ids
_discover_by_commander(a, pages, browser) ==
    LET l == PageLoop(pages, 1, FALSE)
        use == FallbackFlag(a.use_selenium, l.failed)
        falls_back == use /\ ~l.found
        s == IF falls_back THEN _selenium_request(a.driver, browser)
             ELSE [driver |-> a.driver, html |-> FALSE]
    IN  [a |-> Adapter(s.driver, use,
                       Append(a.ops, MoxOp("discover", l.failed, falls_back,
                                           a.use_selenium))),
         found |-> l.found \/ s.html]

\* fetch_deck on the adapter a: the adapter afterwards and whether it returns
\* a deck
fetch_deck(a, direct, browser) ==
    LET s == IF direct = "fail" THEN _selenium_request(a.driver, browser)
             ELSE [driver |-> a.driver, html |-> FALSE]
    IN  [a |-> Adapter(s.driver, a.use_selenium \/ direct = "fail",
                       Append(a.ops, MoxOp("fetch", direct = "fail", direct = "fail",
                                           a.use_selenium))),
         found |-> direct = "ok" \/ s.html]

\* a variant that leaves the session open
cleanup_keeps_driver(a) == a

\* MoxfieldAdapter.cleanup
cleanup(a) == Adapter(NoDriver, a.use_selenium, a.ops)

\* the return of a job, as the history keeps it: the job, its exit path and
\* the driver the adapter holds then
MoxExit(name, path, drv) == [job |-> name, path |-> path, driver |-> drv]

\* the Moxfield job in progress: name is the job called, pc its position
\* (discover: the loop of discover_decks, fetch: the loop of the export), i
\* the next commander or deck, ndecks the length of processed_ids
MoxJob(name, pc, i, discovered, ndecks, total_decks, errors) ==
    [name |-> name, pc |-> pc, i |-> i, discovered |-> discovered, ndecks |-> ndecks,
     total_decks |-> total_decks, errors |-> errors]

MoxIdle == MoxJob(NULL, "idle", 0, 0, 0, 0, 0)

TheAdapter == Adapter(driver, use_selenium, mox_ops)

SetAdapter(a) ==
    /\ driver' = a.driver
    /\ use_selenium' = a.use_selenium
    /\ mox_ops' = a.ops

MoxCanStart == mox_job.pc = "idle" /\ Len(mox_exits) < MaxMoxJobs

MoxReturn(name, path, drv) ==
    /\ mox_exits' = Append(mox_exits, MoxExit(name, path, drv))
    /\ mox_job' = MoxIdle

\* run_moxfield_discovery while the adapter is not enabled
MoxDiscoverySkipped ==
    /\ MoxCanStart
    /\ "moxfield" \notin adapters
    /\ MoxReturn("discovery", "skipped", driver)
    /\ UNCHANGED <<driver, use_selenium, mox_ops, logs>>

\* run_moxfield_discovery up to the loop of discover_decks
MoxDiscoveryStart ==
    /\ MoxCanStart
    /\ "moxfield" \in adapters
    /\ mox_job' = MoxJob("discovery", "discover", 1, 0, 0, 0, 0)
    /\ UNCHANGED <<driver, use_selenium, mox_ops, mox_exits, logs>>

\* run_moxfield_discovery when discover_decks raises before its loop (the
\* lookup of the discovery settings)
MoxDiscoveryRaises ==
    /\ MoxCanStart
    /\ "moxfield" \in adapters
    /\ logs' = log_ingestion(logs, "moxfield", "discovery", "error", 0, 0, 1, "exception")
    /\ MoxReturn("discovery", "exception", driver)
    /\ UNCHANGED <<driver, use_selenium, mox_ops>>

\* run_moxfield_export while the adapter is not enabled
MoxExportSkipped ==
    /\ MoxCanStart
    /\ "moxfield" \notin adapters
    /\ MoxReturn("export", "skipped", driver)
    /\ UNCHANGED <<driver, use_selenium, mox_ops, logs>>

\* run_moxfield_export up to its first loop: the fetch loop when deck ids
\* are given, the loop of its own discovery otherwise
MoxExportStart ==
    /\ MoxCanStart
    /\ "moxfield" \in adapters
    /\ \/ \E n \in 1..MaxMoxDecks : mox_job' = MoxJob("export", "fetch", 1, 0, n, 0, 0)
       \/ mox_job' = MoxJob("export", "discover", 1, 0, 0, 0, 0)
    /\ UNCHANGED <<driver, use_selenium, mox_ops, mox_exits, logs>>

\* run_moxfield_export without deck ids when its discovery raises before
\* its loop: the error result of the discovery is returned
MoxExportDiscoveryFails ==
    /\ MoxCanStart
    /\ "moxfield" \in adapters
    /\ logs' = log_ingestion(logs, "moxfield", "discovery", "error", 0, 0, 1, "exception")
    /\ MoxReturn("export", "failed_discovery", driver)
    /\ UNCHANGED <<driver, use_selenium, mox_ops>>

\* one round of the loop of discover_decks
MoxDiscoverCommander ==
    /\ mox_job.pc = "discover" /\ mox_job.i <= MoxCommanders
    /\ \E pages \in [1..MoxMaxPages -> PageOutcomes], browser \in BrowserOutcomes :
          LET d == _discover_by_commander(TheAdapter, pages, browser)
          IN  /\ SetAdapter(d.a)
              /\ mox_job' = [mox_job EXCEPT !.i = @ + 1,
                                 !.discovered = IF d.found THEN @ + 1 ELSE @]
    /\ UNCHANGED <<mox_exits, logs>>

\* the end of run_moxfield_discovery: the JobRun is written and the job
\* returns, or the write raises and the handler of the job returns an error
MoxDiscoveryFinish ==
    /\ mox_job.pc = "discover" /\ mox_job.i > MoxCommanders
    /\ mox_job.name = "discovery"
    /\ \E raises \in BOOLEAN :
          IF raises
          THEN /\ logs' = log_ingestion(logs, "moxfield", "discovery", "error",
                                        0, 0, 1, "exception")
               /\ MoxReturn("discovery", "exception", driver)
          ELSE /\ logs' = log_ingestion(logs, "moxfield", "discovery", "success",
                                        mox_job.discovered, 0, 0, NULL)
               /\ MoxReturn("discovery", "success", driver)
    /\ UNCHANGED <<driver, use_selenium, mox_ops>>

\* the end of the discovery that run_moxfield_export called: the export goes
\* on with the ids discovered
MoxExportDiscovered ==
    /\ mox_job.pc = "discover" /\ mox_job.i > MoxCommanders
    /\ mox_job.name = "export"
    /\ logs' = log_ingestion(logs, "moxfield", "discovery", "success",
                             mox_job.discovered, 0, 0, NULL)
    /\ \E n \in 1..MaxMoxDecks :
          mox_job' = [mox_job EXCEPT !.pc = "fetch", !.i = 1,
                                     !.ndecks = IF mox_job.discovered = 0 THEN 0 ELSE n]
    /\ UNCHANGED <<driver, use_selenium, mox_ops, mox_exits>>

\* one round of the loop of run_moxfield_export
MoxFetchDeck ==
    /\ mox_job.pc = "fetch" /\ mox_job.i <= mox_job.ndecks
    /\ \E direct \in FetchOutcomes, browser \in BrowserOutcomes :
          LET f == fetch_deck(TheAdapter, direct, browser)
          IN  /\ SetAdapter(f.a)
              /\ mox_job' = [mox_job EXCEPT !.i = @ + 1,
                                 !.total_decks = IF f.found THEN @ + 1 ELSE @,
                                 !.errors = IF f.found THEN @ ELSE @ + 1]
    /\ UNCHANGED <<mox_exits, logs>>

\* the end of run_moxfield_export: adapter.cleanup(), the JobRun, the return
MoxExportFinish ==
    /\ mox_job.pc = "fetch" /\ mox_job.i > mox_job.ndecks
    /\ LET c == cleanup(TheAdapter)
       IN  /\ SetAdapter(c)
           /\ logs' = log_ingestion(logs, "moxfield", "export", LoopStatus(mox_job.errors),
                                    mox_job.total_decks, 0, mox_job.errors, NULL)
           /\ MoxReturn("export", "success", c.driver)

\* ---- the adapter under browser requests and cleanup calls alone ----
\* one call on the adapter, as the history keeps it: the driver held before
\* and after it, whether a session was started, and whether the call went
\* well (the page loaded, the browser quit)
BrowserOp(op, held_before, created, held_after, ok) ==
    [op |-> op, held_before |-> held_before, created |-> created,
     held_after |-> held_after, ok |-> ok]

\* a request that goes through the browser
SeleniumRequest ==
    /\ Len(mox_ops) < MaxBrowserOps
    /\ \E browser \in BrowserOutcomes :
          LET s == _selenium_request(driver, browser)
          IN  /\ driver' = s.driver
              /\ mox_ops' = Append(mox_ops, BrowserOp("request", driver, s.created,
                                                     s.driver, s.html))
    /\ UNCHANGED <<use_selenium, mox_exits, mox_job, logs>>

\* adapter.cleanup(); driver.quit() returns or raises
Cleanup ==
    /\ Len(mox_ops) < MaxBrowserOps
    /\ \E quit_ok \in BOOLEAN :
          LET c == cleanup(TheAdapter)
          IN  /\ driver' = c.driver
              /\ use_selenium' = c.use_selenium
              /\ mox_ops' = Append(mox_ops, BrowserOp("cleanup", driver, FALSE,
                                                     c.driver, quit_ok))
    /\ UNCHANGED <<mox_exits, mox_job, logs>>

NextBrowser ==
    \/ SeleniumRequest /\ UNCHANGED <<dbVars, adapters, job, calls, reqVars, discVars, batchVars, normVars, unmVars, schedVars, deckVars>>
    \/ Cleanup /\ UNCHANGED <<dbVars, adapters, job, calls, reqVars, discVars, batchVars, normVars, unmVars, schedVars, deckVars>>

InitMox ==
    /\ driver = NoDriver
    /\ use_selenium = FALSE
    /\ mox_ops = <<>>
    /\ mox_exits = <<>>
    /\ mox_job = MoxIdle

ParkedMox == InitMox

MoxRest == <<dbVars, adapters, job, calls, reqVars, discVars, batchVars, normVars, unmVars, schedVars, deckVars>>

NextMox ==
    \/ MoxDiscoverySkipped /\ UNCHANGED MoxRest
    \/ MoxDiscoveryStart /\ UNCHANGED MoxRest
    \/ MoxDiscoveryRaises /\ UNCHANGED MoxRest
    \/ MoxExportSkipped /\ UNCHANGED MoxRest
    \/ MoxExportStart /\ UNCHANGED MoxRest
    \/ MoxExportDiscoveryFails /\ UNCHANGED MoxRest
    \/ MoxDiscoverCommander /\ UNCHANGED MoxRest
    \/ MoxDiscoveryFinish /\ UNCHANGED MoxRest
    \/ MoxExportDiscovered /\ UNCHANGED MoxRest
    \/ MoxFetchDeck /\ UNCHANGED MoxRest
    \/ MoxExportFinish /\ UNCHANGED MoxRest

(***************************************************************************)
(* The scheduler loop: JobScheduler (scheduler.py) with the cleanup of     *)
(* IngestionJob (ingestion_job.py).  A scheduled job is modelled by its    *)
(* outcome and by what it does to the browser session of the Moxfield      *)
(* adapter.                                                                *)
(***************************************************************************)
MaxTriggers == 2
MaxStops == 2

\* what the function handed to _run_with_logging does: it returns a dict with
\* status success or error, or it raises an exception
JobOutcomes == {"success", "error", "raise"}

\* the driver of the Moxfield adapter after a job: the Moxfield jobs may start
\* a browser session or clean it up, the other jobs do not touch it
JobDriverEffects(job_name, drv) ==
    IF job_name \in {"moxfield_discovery", "moxfield_export"} /\ "moxfield" \in adapters
    THEN {drv, Chrome, NoDriver}
    ELSE {drv}

\* a variant without the except clause of _run_with_logging
propagates_job_exception(outcome) == outcome = "raise"

\* whether _run_with_logging lets the exception of its job out
Propagates(outcome) == FALSE

\* one triggered job, as the history keeps it
Trigger(job_name, outcome) == [job |-> job_name, outcome |-> outcome]

\* IngestionJob.cleanup: cleanup() of every enabled adapter that has one
JobCleanup(drv) ==
    IF "moxfield" \in adapters
    THEN cleanup(Adapter(drv, use_selenium, mox_ops)).driver
    ELSE drv

\* one stop() call, as the history keeps it
Stop(cause, drv, ntriggered) == [cause |-> cause, driver |-> drv, ntriggered |-> ntriggered]

\* JobScheduler.stop, called for the given cause while the driver is drv
stop(cause, drv) ==
    /\ running' = FALSE
    /\ driver' = JobCleanup(drv)
    /\ stops' = Append(stops, Stop(cause, drv, Len(triggered')))

\* run_forever up to its loop
RunForeverStart ==
    /\ sched_pc = "new"
    /\ running' = TRUE
    /\ sched_pc' = "loop"
    /\ UNCHANGED <<triggered, stops, driver>>

\* one due job run by schedule.run_pending() through _run_with_logging; an
\* exception that gets out of it ends run_forever through its handler and stop()
RunPending ==
    /\ sched_pc = "loop" /\ running
    /\ Len(triggered) < MaxTriggers
    /\ \E job_name \in JobNames, outcome \in JobOutcomes :
       \E drv \in JobDriverEffects(job_name, driver) :
          /\ triggered' = Append(triggered, Trigger(job_name, outcome))
          /\ IF Propagates(outcome)
             THEN /\ stop("scheduler_error", drv)
                  /\ sched_pc' = "returned"
             ELSE /\ driver' = drv
                  /\ UNCHANGED <<running, stops, sched_pc>>

\* a keyboard interrupt while run_forever sleeps
InterruptSleep ==
    /\ sched_pc = "loop" /\ running
    /\ triggered' = triggered
    /\ stop("interrupt", driver)
    /\ sched_pc' = "returned"

\* a keyboard interrupt while a due job runs: it passes through the handlers
\* of the job and of _run_with_logging
InterruptJob ==
    /\ sched_pc = "loop" /\ running
    /\ Len(triggered) < MaxTriggers
    /\ \E job_name \in JobNames :
       \E drv \in JobDriverEffects(job_name, driver) :
          /\ triggered' = Append(triggered, Trigger(job_name, "interrupted"))
          /\ stop("interrupt", drv)
          /\ sched_pc' = "returned"

\* schedule.run_pending() itself raises
SchedulerError ==
    /\ sched_pc = "loop" /\ running
    /\ triggered' = triggered
    /\ stop("scheduler_error", driver)
    /\ sched_pc' = "returned"

\* stop() called again after run_forever returned (the finally clause of the
\* scheduler command)
StopAgain ==
    /\ sched_pc = "returned"
    /\ Len(stops) < MaxStops
    /\ triggered' = triggered
    /\ stop("again", driver)
    /\ UNCHANGED sched_pc

\* ---- run_once: one job run by name ----
\* the keys of job_methods
job_methods == {"archidekt_incremental", "moxfield_discovery", "moxfield_export",
                "normalization"}

\* the names run_once is called with: the known ones and one that is not
RunOnceNames == job_methods \cup {"export_all"}

\* the source and the operation a job logs its JobRun under
JobSource(job_name) ==
    CASE job_name = "archidekt_incremental" -> "archidekt"
      [] job_name = "normalization" -> "scryfall"
      [] OTHER -> "moxfield"

JobOperation(job_name) ==
    CASE job_name = "archidekt_incremental" -> "incremental"
      [] job_name = "moxfield_discovery" -> "discovery"
      [] job_name = "moxfield_export" -> "export"
      [] OTHER -> "normalize"

\* a variant without the except clause of run_once
run_once_reraises(outcome) == outcome # "raise"

\* whether `except Exception` of run_once catches what the job raised
RunOnceCatches(outcome) == TRUE

\* one run_once call, as the history keeps it: its argument, the jobs it
\* ran, what the job did, the dict returned, and whether an exception got out
OnceCall(job_name, ran, outcome, result, raised) ==
    [job |-> job_name, ran |-> ran, outcome |-> outcome, result |-> result,
     raised |-> raised]

\* the deck an ingestion job persists when it fetched one
OncePayload ==
    [source_deck_id |-> "d1", title |-> "t1", cards |-> <<CardEntry("Sol Ring")>>,
     commanders |-> <<>>]

\* run_once(job_name): an unknown name is answered with an error dict; a
\* known job runs, persists what it fetched, writes its JobRun unless it
\* raises, and its exception is turned into an error dict
RunOnce ==
    /\ sched_pc = "new"
    /\ Len(triggered) < MaxTriggers
    /\ \E job_name \in RunOnceNames :
          IF job_name \notin job_methods
          THEN /\ triggered' = Append(triggered,
                      OnceCall(job_name, <<>>, "none",
                               [status |-> "error", message |-> <<"Unknown job", job_name>>],
                               FALSE))
               /\ UNCHANGED <<dbVars, logs, driver>>
          ELSE \E outcome \in JobOutcomes, persists \in BOOLEAN :
               \E drv \in JobDriverEffects(job_name, driver) :
                  /\ IF /\ persists
                        /\ job_name \in {"archidekt_incremental", "moxfield_export"}
                        /\ JobSource(job_name) \in adapters
                     THEN PersistDeck(JobSource(job_name), OncePayload)
                     ELSE UNCHANGED dbVars
                  /\ logs' = IF outcome = "raise" THEN logs
                             ELSE log_ingestion(logs, JobSource(job_name),
                                                JobOperation(job_name), outcome, 0, 0,
                                                IF outcome = "error" THEN 1 ELSE 0, NULL)
                  /\ driver' = drv
                  /\ triggered' = Append(triggered,
                         OnceCall(job_name, <<job_name>>, outcome,
                                  IF outcome # "raise"
                                  THEN [status |-> outcome, message |-> <<"", job_name>>]
                                  ELSE IF RunOnceCatches(outcome)
                                  THEN [status |-> "error",
                                        message |-> <<"exception", job_name>>]
                                  ELSE [status |-> "none", message |-> <<"", job_name>>],
                                  outcome = "raise" /\ ~RunOnceCatches(outcome)))
    /\ UNCHANGED <<running, sched_pc, stops>>

NextRunOnce ==
    \/ RunOnce /\ UNCHANGED <<adapters, job, calls, reqVars, discVars, batchVars, normVars, unmVars, use_selenium, mox_ops, mox_exits, mox_job, deckVars>>

InitSched ==
    /\ running = FALSE
    /\ sched_pc = "new"
    /\ triggered = <<>>
    /\ stops = <<>>

ParkedSched == InitSched

SchedRest == <<dbVars, jobVars, reqVars, discVars, batchVars, normVars, unmVars, use_selenium, mox_ops, mox_exits, mox_job, deckVars>>

NextSched ==
    \/ RunForeverStart /\ UNCHANGED SchedRest
    \/ RunPending /\ UNCHANGED SchedRest
    \/ InterruptSleep /\ UNCHANGED SchedRest
    \/ InterruptJob /\ UNCHANGED SchedRest
    \/ SchedulerError /\ UNCHANGED SchedRest
    \/ StopAgain /\ UNCHANGED SchedRest

(***************************************************************************)
(* The deck normalization of the adapters: normalize_archidekt_deck        *)
(* (archidekt.py) and normalize_moxfield_deck (moxfield.py).  A raw deck   *)
(* is modelled by its card entries; the entries of a JSON object are taken *)
(* in the order values() gives them.                                       *)
(***************************************************************************)
MaxRawCards == 2

RawCardNames == {"Atraxa", "Sol Ring"}
RawOracleIds == {NULL, "o1"}
\* the categories of an Archidekt card entry: a list of tags, or null
Categories(tags) == [null |-> FALSE, tags |-> tags]
NullCategories == [null |-> TRUE, tags |-> {}]
RawCategories ==
    {NullCategories}
        \cup {Categories(t) : t \in {{}, {"Commander"}, {"commander"}, {"Maybeboard"}}}

\* the card entries of a raw Archidekt deck
ArchidektEntries == [name : RawCardNames, oracleId : RawOracleIds, categories : RawCategories]
\* the entries of the commanders and of the mainboard of a raw Moxfield deck
MoxfieldEntries == [name : RawCardNames, oracleId : RawOracleIds]

\* has_id: whether the raw deck has the key 'id' that normalize_archidekt_deck reads
RawArchidektDecks ==
    [source : {"archidekt"}, has_id : BOOLEAN, cards : SeqsUpTo(ArchidektEntries, MaxRawCards)]

RawMoxfieldDecks ==
    [source : {"moxfield"}, commanders : SeqsUpTo(MoxfieldEntries, MaxRawCards - 1),
     mainboard : SeqsUpTo([name : RawCardNames, oracleId : {NULL}], MaxRawCards)]

\* 'Commander' in categories or 'commander' in categories
is_commander(categories) ==
    LET tags == IF categories.null THEN {} ELSE categories.tags
    IN  "Commander" \in tags \/ "commander" \in tags

\* the entry of deck_info['cards']
CardData(name, qty, zone, oracle_id) ==
    [name |-> name, qty |-> qty, zone |-> zone, oracle_id |-> oracle_id]

\* the entry of deck_info['commanders']
CommanderData(name, oracle_id) == [name |-> name, oracle_id |-> oracle_id]

\* what a normalization returns: a deck_info, or None
DeckInfo(cards, commanders) == [status |-> "deck", cards |-> cards, commanders |-> commanders]
NoneDeck == [status |-> "none", cards |-> <<>>, commanders |-> <<>>]
NotNormalized == [status |-> "pending", cards |-> <<>>, commanders |-> <<>>]

\* normalize_archidekt_deck
normalize_archidekt_deck(raw) ==
    IF ~raw.has_id
    THEN NoneDeck
    ELSE LET cmd == SelectSeq(raw.cards, LAMBDA e : is_commander(e.categories))
         IN  DeckInfo([i \in 1..Len(raw.cards) |->
                          CardData(raw.cards[i].name, 1,
                                   IF is_commander(raw.cards[i].categories)
                                   THEN "command" ELSE "main",
                                   raw.cards[i].oracleId)],
                      [i \in 1..Len(cmd) |-> CommanderData(cmd[i].name, cmd[i].oracleId)])

\* a variant that leaves the commanders out of the cards list
no_commander_entries(commanders) == <<>>

\* the entries normalize_moxfield_deck adds to cards for the commanders
CommanderEntries(commanders) ==
    [i \in 1..Len(commanders) |->
        CardData(commanders[i].name, 1, "command", commanders[i].oracle_id)]

\* normalize_moxfield_deck
normalize_moxfield_deck(raw) ==
    LET commanders == [i \in 1..Len(raw.commanders) |->
                          CommanderData(raw.commanders[i].name, raw.commanders[i].oracleId)]
        main == [i \in 1..Len(raw.mainboard) |->
                    CardData(raw.mainboard[i].name, 1, "main", raw.mainboard[i].oracleId)]
    IN  DeckInfo(main \o CommanderEntries(commanders), commanders)

NormalizeArchidektDeck ==
    /\ deck_info.status = "pending"
    /\ raw_deck.source = "archidekt"
    /\ deck_info' = normalize_archidekt_deck(raw_deck)
    /\ UNCHANGED raw_deck

NormalizeMoxfieldDeck ==
    /\ deck_info.status = "pending"
    /\ raw_deck.source = "moxfield"
    /\ deck_info' = normalize_moxfield_deck(raw_deck)
    /\ UNCHANGED raw_deck

InitDeck ==
    /\ raw_deck \in RawArchidektDecks \cup RawMoxfieldDecks
    /\ deck_info = NotNormalized

ParkedDeck ==
    /\ raw_deck = [source |-> NULL]
    /\ deck_info = NotNormalized

DeckRest == <<dbVars, jobVars, reqVars, discVars, batchVars, normVars, unmVars, moxVars, schedVars>>

NextDeck ==
    \/ NormalizeArchidektDeck /\ UNCHANGED DeckRest
    \/ NormalizeMoxfieldDeck /\ UNCHANGED DeckRest

ParkedExt == ParkedUnm /\ ParkedMox /\ ParkedSched /\ ParkedDeck

ParkedRest == ParkedBatch /\ ParkedNorm /\ ParkedExt

(***************************************************************************)
(* Specifications                                                          *)
(***************************************************************************)
InitDbSpec == InitDb /\ ParkedJob /\ ParkedReq /\ ParkedDisc /\ ParkedRest
SpecDb == InitDbSpec /\ [][NextDb]_vars

\* the store under deck persistence that may fail while the cards are replaced
SpecTxn == InitDbSpec /\ [][NextTxn]_vars

InitJobSpec == InitJob /\ ParkedDb /\ ParkedReq /\ ParkedDisc /\ ParkedRest
SpecJob == InitJobSpec /\ [][NextJob]_vars

\* the two loop jobs under configurations that reach their per-run limits
SpecLimits == InitJobSpec /\ [][NextLimits]_vars

\* one caller: requests are issued one after another
InitReqSpec == InitReqWith({1}) /\ ParkedDb /\ ParkedJob /\ ParkedDisc /\ ParkedRest
SpecReq == InitReqSpec /\ [][NextReq]_vars

\* one caller that keeps running, and whose sleeps end
SpecReqLive == InitReqSpec /\ [][NextReqLive]_vars /\ ReqFairness

\* two callers on the same adapter
InitConcSpec == InitReqWith(ThreadIds) /\ ParkedDb /\ ParkedJob /\ ParkedDisc /\ ParkedRest
SpecConc == InitConcSpec /\ [][NextConc]_vars

InitDiscSpec == InitDisc /\ ParkedDb /\ ParkedJob /\ ParkedReq /\ ParkedRest
SpecDisc == InitDiscSpec /\ [][NextDisc]_vars

\* the store under deck persistence and card normalization
InitEnrichSpec == InitDb /\ ParkedJob /\ ParkedReq /\ ParkedDisc /\ ParkedRest
SpecEnrich == InitEnrichSpec /\ [][NextEnrich]_vars

InitNormSpec == InitNorm /\ ParkedDb /\ ParkedJob /\ ParkedReq /\ ParkedDisc /\ ParkedBatch /\ ParkedExt
SpecNorm == InitNormSpec /\ [][NextNorm]_vars

\* the normalizer over a remote dataset that is republished
InitFreshSpec == InitNormOutdated /\ ParkedDb /\ ParkedJob /\ ParkedReq /\ ParkedDisc /\ ParkedBatch /\ ParkedExt
SpecFresh == InitFreshSpec /\ [][NextNorm]_vars

InitBatchSpec == InitBatch /\ ParkedDb /\ ParkedJob /\ ParkedReq /\ ParkedDisc /\ ParkedNorm /\ ParkedExt
SpecBatch == InitBatchSpec /\ [][NextBatch]_vars

\* the store, the JobRun records and unmapped_cards under the normalization job
InitNormJobSpec == InitDb /\ ParkedJob /\ ParkedReq /\ ParkedDisc /\ ParkedBatch /\ ParkedNorm /\ InitUnm /\ ParkedMox /\ ParkedSched /\ ParkedDeck
SpecNormJob == InitNormJobSpec /\ [][NextNormJob]_vars

\* the store under repeated normalization sweeps, fairly scheduled
SpecSweepLive == InitNormJobSpec /\ [][NextSweep]_vars /\ SweepFairness

\* the Moxfield adapter under the two Moxfield jobs
InitMoxSpec == InitJob /\ ParkedDb /\ ParkedReq /\ ParkedDisc /\ ParkedBatch /\ ParkedNorm /\ ParkedUnm /\ InitMox /\ ParkedSched /\ ParkedDeck
SpecMox == InitMoxSpec /\ [][NextMox]_vars

\* the Moxfield adapter under browser requests and cleanup calls
InitBrowserSpec == ParkedDb /\ ParkedJob /\ ParkedReq /\ ParkedDisc /\ ParkedBatch /\ ParkedNorm /\ ParkedUnm /\ InitMox /\ ParkedSched /\ ParkedDeck
SpecBrowser == InitBrowserSpec /\ [][NextBrowser]_vars

\* the scheduler loop over the jobs, with the browser session they may open
InitSchedSpec == InitJob /\ ParkedDb /\ ParkedReq /\ ParkedDisc /\ ParkedBatch /\ ParkedNorm /\ ParkedUnm /\ InitMox /\ InitSched /\ ParkedDeck
SpecSched == InitSchedSpec /\ [][NextSched]_vars

\* the scheduler used for manual runs: run_once calls over the store
InitRunOnceSpec == InitJob /\ InitDb /\ ParkedReq /\ ParkedDisc /\ ParkedBatch /\ ParkedNorm /\ ParkedUnm /\ InitMox /\ InitSched /\ ParkedDeck
SpecRunOnce == InitRunOnceSpec /\ [][NextRunOnce]_vars

\* the deck normalizations on every raw deck of the bounded sets
InitDeckSpec == InitDeck /\ ParkedDb /\ ParkedJob /\ ParkedReq /\ ParkedDisc /\ ParkedBatch /\ ParkedNorm /\ ParkedUnm /\ ParkedMox /\ ParkedSched
SpecDeck == InitDeckSpec /\ [][NextDeck]_vars


\* C1: once a (source, source_deck_id) key has been persisted, also again with a
\* different card list, the store holds exactly one deck row for it and that
\* deck's card rows are exactly the card list persisted last.
C1_UpsertIdempotence ==
    \A key \in Keys :
        lastPayload[key] # NoPayload =>
            /\ Cardinality(DeckRowsOf(key)) = 1
            /\ \A d \in DeckRowsOf(key) : StoredCards(d) = lastPayload[key].cards

\* a key was persisted twice with different card lists, the second non-empty
C1_Witness ==
    \E key \in repersisted :
        /\ lastPayload[key].cards # <<>>
        /\ Cardinality(DeckRowsOf(key)) = 1

\* C2: when the export job is given N deck identifiers (N <= max_decks), exactly
\* one unit fails and all others succeed, every unit is still processed and the
\* JobRun of the invocation reports decks_processed = N-1, errors_count = 1 and
\* status = partial, whichever unit failed.
FailedUnits(units) == {k \in 1..Len(units) : units[k] # "ok"}

ExportEndedWithOneFailure ==
    /\ job.pc = "done" /\ job.name = "moxfield_export"
    /\ calls[job.call].result.status = "success"
    /\ Len(job.deck_ids) <= job.max_decks
    /\ Cardinality(FailedUnits(job.units)) = 1

C2_PartialFailureIsolation ==
    ExportEndedWithOneFailure =>
        /\ Len(job.units) = Len(job.deck_ids)
        /\ Len(RecordsOf(job.call)) = 1
        /\ RecordsOf(job.call)[1].decks_processed = Len(job.deck_ids) - 1
        /\ RecordsOf(job.call)[1].errors_count = 1
        /\ RecordsOf(job.call)[1].status = "partial"

\* a run of three identifiers whose second unit failed
C2_Witness ==
    /\ ExportEndedWithOneFailure
    /\ Len(job.deck_ids) = MaxIds
    /\ FailedUnits(job.units) = {2}

\* C3: every invocation of a job that has returned wrote exactly one JobRun record.
C3_ExactlyOneJobRun ==
    \A c \in 1..Len(calls) :
        calls[c].result.status # "running" => Len(calls[c].records) = 1

\* C4: the JobRun of a loop job (incremental, export) has status success exactly
\* when it counted no error, partial exactly when it counted at least one error
\* and at least one successful unit, and error when the job raised.
C4_StatusMatchesCounts ==
    \A i \in 1..Len(logs) :
      logs[i].operation \in {"incremental", "export"} =>
        /\ logs[i].status = "success" <=> logs[i].errors_count = 0
        /\ logs[i].status = "partial" <=>
              (logs[i].errors_count >= 1 /\ logs[i].decks_processed >= 1)
        /\ logs[i].message = "exception" => logs[i].status = "error"

\* C5: with rate_limit R > 0, requests issued one after another through
\* _make_request pass the limiter at least 1/R apart, so that M of them take no
\* less than (M-1)/R in total.
C5_RateLimiting ==
    rate_limit > 0 =>
        /\ \A i \in 1..Len(stamps) : \A j \in 1..Len(stamps) :
              i < j => stamps[j].t - stamps[i].t >= (j - i) * MinInterval(rate_limit)
        /\ stamps # <<>> =>
              now - stamps[1].t >= (Len(stamps) - 1) * MinInterval(rate_limit)

\* three requests were issued at one request per second, the last one as early
\* as the limiter allows
C5_Witness ==
    /\ rate_limit = 1
    /\ Len(stamps) = 3
    /\ stamps[3].t - stamps[1].t = 2 * MinInterval(rate_limit)

\* C6: a call of _make_request whose responses were only 429 signals and
\* successes ends with the successful response; 429 signals never make it fail.
C6_RateLimitSignalNeverFails ==
    \A t \in threads :
        (/\ th[t].pc = "done"
         /\ th[t].op \in EngineOps
         /\ \A i \in 1..Len(th[t].got) : th[t].got[i] \in {"429", "ok"})
        => th[t].result.kind = "response"

\* C7: a call of _make_request ends with a successful response or by raising
\* the last underlying cause; it never returns without a response.
C7_ResponseOrRaise ==
    \A t \in threads :
        (th[t].pc = "done" /\ th[t].op \in EngineOps) =>
            \/ th[t].result.kind = "response"
            \/ /\ th[t].result.kind = "raised"
               /\ th[t].result.cause = th[t].got[Len(th[t].got)]

\* C8: with concurrent callers on one adapter, no two requests pass the limiter
\* less than 1/rate_limit apart.
C8_ConcurrentSpacing ==
    rate_limit > 0 =>
        \A i \in 1..Len(stamps) : \A j \in 1..Len(stamps) :
            i # j => \/ stamps[i].t - stamps[j].t >= MinInterval(rate_limit)
                     \/ stamps[j].t - stamps[i].t >= MinInterval(rate_limit)

\* C9: every GET an adapter operation sends was preceded, in the same operation,
\* by the rate-limit wait, and an operation gives up on a failure only after
\* max_retries + 1 attempts.
C9_AllRequestsThroughEngine ==
    /\ rate_limit > 0 =>
          \A k \in 1..Len(sent) : \E i \in 1..Len(stamps) : stamps[i].call = sent[k].call
    /\ \A t \in threads :
          (/\ th[t].pc = "done"
           /\ th[t].got[Len(th[t].got)] \in {"http_error", "connection_error"})
          => Len(th[t].got) = max_retries + 1

\* C10: the multi-page discovery returns every distinct deck id of the pages it
\* fetched exactly once, and the same set for every order of the pages that
\* yielded ids.
PagesWithIds == SelectSeq(pages_seen, LAMBDA l : l # <<>>)

C10_DiscoveryDedup ==
    dpc = "done" =>
        /\ Len(unique_deck_ids) = Cardinality(seen_ids)
        /\ Range(unique_deck_ids) = seen_ids
        /\ \A r \in Reorderings(PagesWithIds) :
              IdsOfPages(r, 1, max_pages) = Range(unique_deck_ids)

\* two fetched pages shared an id and the result holds it once
C10_Witness ==
    /\ dpc = "done"
    /\ Len(PagesWithIds) >= 2
    /\ Range(PagesWithIds[1]) \cap Range(PagesWithIds[2]) # {}
    /\ Len(unique_deck_ids) = MaxDeckId
    /\ Len(all_deck_ids) > Len(unique_deck_ids)
\* the ids of all pages fetched so far, as a set
FetchedIds == UNION {Range(pages_seen[i]) : i \in 1..Len(pages_seen)}

\* C11: the paginated discovery requests pages 1, 2, ... in increasing order,
\* requests no page after the first one that yields no ids nor after page
\* max_pages, and still returns the ids of the pages before an empty one.
C11_PaginationStop ==
    /\ [](/\ Len(pages_seen) <= max_pages
          /\ \A i \in 1..Len(pages_seen) : pages_seen[i] = <<>> => i = Len(pages_seen)
          /\ dpc = "done" => Range(unique_deck_ids) = FetchedIds)
    /\ [][pages_seen' # pages_seen /\ pages_seen' # <<>> =>
              /\ Len(pages_seen') = Len(pages_seen) + 1
              /\ page = Len(pages_seen')
              /\ \A i \in 1..Len(pages_seen) :
                    pages_seen'[i] = pages_seen[i] /\ pages_seen[i] # <<>>]_vars

\* the second of three allowed pages was empty: the search ended there with
\* the ids of the first page
C11_Witness ==
    /\ dpc = "done"
    /\ max_pages = 3
    /\ Len(pages_seen) = 2
    /\ pages_seen[1] # <<>> /\ pages_seen[2] = <<>>
    /\ Range(unique_deck_ids) = Range(pages_seen[1])

\* C12: a politeness delay separates every two successive page fetches and
\* none follows the last fetch: a finished run has made one delay less than
\* page requests, and after every delay another page is requested.
C12_PolitenessDelay ==
    /\ (dpc = "done" /\ pages_seen # <<>>) => delays = Len(pages_seen) - 1
    /\ dpc \in {"dedup", "done"} => delays < Len(pages_seen)
    /\ dpc = "delay" => delays = Len(pages_seen) - 1 /\ page < max_pages
    /\ dpc = "loop" => delays = Len(pages_seen) /\ page <= max_pages

\* three pages were fetched with two delays between them
C12_Witness ==
    /\ dpc = "done"
    /\ Len(pages_seen) = 3
    /\ pages_seen[3] # <<>>
    /\ delays = 2
C14_CanonicalIdNeverReset ==
    [][\A i \in 1..Len(deck_cards) : \A j \in 1..Len(deck_cards') :
          (/\ deck_cards[i].oracle_id # NULL
           /\ deck_cards'[j].deck_id = deck_cards[i].deck_id
           /\ deck_cards'[j].name = deck_cards[i].name)
          => deck_cards'[j].oracle_id # NULL]_vars

\* C15: after a job persisted a payload, the stored commander rows of the deck
\* are exactly the commander list of the payload persisted last, also when
\* that list is empty.
C15_CommandersReplaced ==
    \A key \in Keys :
        lastPayload[key] # NoPayload =>
            \A d \in DeckRowsOf(key) : StoredCommanders(d) = lastPayload[key].commanders
\* C16: in the incremental bulk job a page whose fetch failed is counted as an
\* error and does not stop the job: the pages after it, up to the page limit,
\* are still fetched.
C16_PageFailureIsolated ==
    (job.pc # "idle" /\ job.name = "archidekt_incremental") =>
        LET failed == {k \in 1..Len(job.units) : job.units[k] \in {"page_raise", "page_failed"}}
        IN  /\ job.errors >= Cardinality(failed)
            /\ (job.pc \in {"finish", "done"} /\ Len(job.units) \in failed)
                  => job.page > job.last_page
\* the resolutions of the history
Resolutions == {i \in 1..Len(nlog) : nlog[i].op = "resolve"}

C18_NameVariationEquivalence ==
    remote = <<LimDulCard>> =>
        \A i \in Resolutions :
            (/\ nlog[i].name \in {LimDulHex, LimDulHexPlain, LimDulHexLower}
             /\ nlog[i].via # "build_failed")
            => nlog[i].result = LimDulCard.oracle_id

\* C19: resolve_card_name of a basic land whose index could be built returns
\* an id, and the id of the built-in table whenever the index has no entry for
\* the name, also when the index is empty or was built by this very call.
C19_BasicLandResolution ==
    \A i \in Resolutions :
        (nlog[i].name = Forest /\ nlog[i].via # "build_failed") =>
            /\ nlog[i].result # NULL
            /\ nlog[i].via \notin {"direct", "variation"}
                  => nlog[i].result = basic_lands[<<"f", "o", "r", "e", "s", "t">>]

\* C20: a resolution made while the engine is stale (no index built yet, or
\* the index older than the refresh cadence) first attempts the rebuild, and
\* returns none when the rebuild fails.
C20_StaleResolveRebuildsFirst ==
    \A i \in Resolutions :
        nlog[i].stale =>
            /\ nlog[i].built
            /\ ~nlog[i].built_ok => nlog[i].result = NULL

\* the rows of unmapped_cards with a given name
UnmappedRows(name) == {i \in 1..Len(unmapped_cards) : unmapped_cards[i].name = name}

\* C21: a normalization job in which nothing but name resolution misses went
\* wrong writes a JobRun with errors_count = 0 and a status other than error,
\* and every name it missed has an unmapped-card record while its card row
\* stays without a canonical id.
C21_MissIsNotAnError ==
    \A i \in 1..Len(nruns) :
        nruns[i].result.status = "success" /\ nruns[i].missed # <<>> =>
            /\ logs[nruns[i].record].errors_count = 0
            /\ logs[nruns[i].record].status # "error"
            /\ \A k \in 1..Len(nruns[i].missed) :
                  /\ UnmappedRows(nruns[i].missed[k][2]) # {}
                  /\ \A j \in 1..Len(deck_cards) :
                        /\ deck_cards[j].deck_id = nruns[i].missed[k][1]
                        /\ deck_cards[j].name = nruns[i].missed[k][2]
                        => deck_cards[j].oracle_id = NULL

\* C22: unmapped_cards holds exactly one row per name logged, its frequency is
\* the number of times the name was logged, and no step lowers a frequency or
\* removes a row.
C22_UnmappedUpsert ==
    /\ [](\A n \in CardNames :
             /\ Cardinality(UnmappedRows(n)) = (IF logged[n] > 0 THEN 1 ELSE 0)
             /\ \A i \in UnmappedRows(n) : unmapped_cards[i].frequency = logged[n])
    /\ [][\A i \in 1..Len(unmapped_cards) :
             \E j \in 1..Len(unmapped_cards') :
                 /\ unmapped_cards'[j].name = unmapped_cards[i].name
                 /\ unmapped_cards'[j].frequency >= unmapped_cards[i].frequency]_vars

\* two names are recorded, one of them more than once, and a run missed twice
C22_Witness ==
    /\ Len(unmapped_cards) = 2
    /\ \E i \in 1..Len(unmapped_cards) :
          unmapped_cards[i].frequency >= 2
    /\ \E i \in 1..Len(nruns) : Len(nruns[i].missed) = 2

\* C27: a failure while the job is set up is recorded and stops the job: when
\* the construction of the job's adapters fails, or the download of the
\* reference data fails, exactly one JobRun with status error and the cause as
\* message has been written and no card was processed.
C27_InitFailureRecorded ==
    /\ ingestion_job = "failed" =>
          /\ Len(logs) = 1
          /\ logs[1].status = "error"
          /\ logs[1].message # ""
    /\ \A i \in 1..Len(nruns) :
          nruns[i].prepare = "download_failed" =>
              /\ logs[nruns[i].record].status = "error"
              /\ logs[nruns[i].record].message = "download_failed"
              /\ logs[nruns[i].record].cards_processed = 0
              /\ nruns[i].missed = <<>>
              /\ \A j \in 1..Len(nruns) : nruns[j].record = nruns[i].record => j = i

\* C23: an operation of the Moxfield adapter drives the browser only when its
\* own direct request failed, whatever the operations before it did.
C23_BrowserOnlyWhenBlocked ==
    \A i \in 1..Len(mox_ops) : mox_ops[i].browser_used => mox_ops[i].direct_failed

\* C24: whenever run_moxfield_discovery or run_moxfield_export has returned,
\* on whatever exit path, the adapter held no browser session at that moment.
C24_BrowserReleasedAfterJob ==
    \A i \in 1..Len(mox_exits) : mox_exits[i].driver = NoDriver

\* C25: once run_forever has ended, by a keyboard interrupt or a scheduler
\* error, running is false, the adapter holds no browser session and no
\* further job is triggered; a later stop() changes none of this.
C25_InterruptShutdown ==
    /\ [](sched_pc = "returned" =>
            /\ ~running
            /\ driver = NoDriver
            /\ stops # <<>>
            /\ stops[1].cause \in {"interrupt", "scheduler_error"}
            /\ Len(triggered) = stops[1].ntriggered)
    /\ [][sched_pc = "returned" =>
            /\ sched_pc' = "returned"
            /\ running' = running
            /\ driver' = driver
            /\ triggered' = triggered]_vars

\* run_forever was interrupted while the adapter held a browser session, and
\* stop() was called a second time afterwards
C25_Witness ==
    /\ sched_pc = "returned"
    /\ Len(stops) = 2
    /\ stops[1].cause = "interrupt" /\ stops[1].driver = Chrome
    /\ stops[2].cause = "again"
    /\ triggered # <<>>

\* C26: a scheduled job that raises an exception or returns an error status
\* does not end the scheduler loop: after it the scheduler is still running in
\* its loop, where later jobs are triggered.
C26_JobFailureDoesNotStopLoop ==
    [][/\ Len(triggered') = Len(triggered) + 1
       /\ triggered'[Len(triggered')].outcome \in {"raise", "error"}
       => /\ running'
          /\ sched_pc' = "loop"
          /\ stops' = stops]_vars

\* a job was triggered and ran after an earlier job had raised
C26_Witness ==
    /\ Len(triggered) = 2
    /\ triggered[1].outcome = "raise"
    /\ triggered[2].outcome = "success"
    /\ running /\ sched_pc = "loop"

\* the names of the command-zone entries of a cards list, in order
CommandZoneNames(cards) ==
    LET cmd == SelectSeq(cards, LAMBDA c : c.zone = "command")
    IN  [i \in 1..Len(cmd) |-> cmd[i].name]

\* the number of card entries the raw deck has, commanders included
RawEntryCount ==
    IF raw_deck.source = "archidekt" THEN Len(raw_deck.cards)
    ELSE Len(raw_deck.mainboard) + Len(raw_deck.commanders)

\* C28: in a deck an adapter normalized, the commanders are exactly the card
\* entries with zone command (the same names, one for one), and the cards
\* list holds the mainboard entries and the command-zone entries alike.
C28_CommandersAreCommandZone ==
    deck_info.status = "deck" =>
        /\ CommandZoneNames(deck_info.cards)
              = [i \in 1..Len(deck_info.commanders) |-> deck_info.commanders[i].name]
        /\ \A i \in 1..Len(deck_info.commanders) :
              \E j \in 1..Len(deck_info.cards) :
                  /\ deck_info.cards[j].name = deck_info.commanders[i].name
                  /\ deck_info.cards[j].zone = "command"
        /\ Len(deck_info.cards) = RawEntryCount
        /\ \A j \in 1..Len(deck_info.cards) : deck_info.cards[j].zone \in {"main", "command"}

\* a Moxfield deck with a commander and a mainboard card was normalized
C28_Witness ==
    /\ deck_info.status = "deck"
    /\ raw_deck.source = "moxfield"
    /\ Len(deck_info.commanders) = 1
    /\ \E j \in 1..Len(deck_info.cards) : deck_info.cards[j].zone = "main"
    /\ \E j \in 1..Len(deck_info.cards) : deck_info.cards[j].zone = "command"

\* the GETs a call of _make_request has sent
GetsOfCall(c) == {i \in 1..Len(sent) : sent[i].call = c /\ sent[i].op \in EngineOps}

\* the attempt of caller t failed in this step: session.get or
\* raise_for_status raised
AttemptFailed(t) ==
    /\ th[t].pc = "get"
    /\ Len(th'[t].got) = Len(th[t].got) + 1
    /\ th'[t].got[Len(th'[t].got)] \in {"http_error", "connection_error"}

\* C29: every call of _make_request ends, whatever the responses are, and has
\* sent at most max_retries + 1 GETs; an attempt that failed and was not the
\* last one is followed by the backoff wait before the next attempt, and the
\* last failed attempt ends the call at once.
C29_BoundedRetries ==
    /\ [](\A c \in 1..MaxCalls : Cardinality(GetsOfCall(c)) <= max_retries + 1)
    /\ [][AttemptFailed(1) /\ th[1].attempt < max_retries =>
             /\ th'[1].pc = "backoff"
             /\ th'[1].wake >= now + Pow(backoff_base, th[1].attempt) * TicksPerSecond]_vars
    /\ [][th[1].pc = "backoff" /\ th'[1].pc # "backoff" =>
             /\ th'[1].pc = "get"
             /\ th'[1].attempt = th[1].attempt + 1
             /\ now >= th[1].wake]_vars
    /\ [][AttemptFailed(1) /\ th[1].attempt >= max_retries =>
             /\ th'[1].pc = "done"
             /\ th'[1].result.kind = "raised"
             /\ th'[1].wake = 0]_vars
    /\ (th[1].pc \notin {"idle", "done"}) ~> (th[1].pc = "done")

\* a call used all its attempts: every one failed, the call raised after the
\* last one, max_retries + 1 GETs were sent
C29_Witness ==
    /\ th[1].pc = "done"
    /\ th[1].result.kind = "raised"
    /\ Len(th[1].got) = max_retries + 1
    /\ Cardinality(GetsOfCall(th[1].call)) = max_retries + 1

\* C30: with the limiter on, every GET that _make_request sends, first
\* attempts and retries alike, comes at least 1/rate_limit seconds after the
\* GET before it.
C30_RetriesArePaced ==
    [][/\ rate_limit > 0
       /\ last_get.set
       /\ Len(sent') > Len(sent)
       /\ sent'[Len(sent')].op \in EngineOps
       => now - last_get.at >= MinInterval(rate_limit)]_vars

\* C31: every index rebuild, whether made by resolve_card_name or at the
\* start of normalize_batch and normalize_all_pending, loads a bulk file that
\* exists and is not older than the remote's last-updated timestamp.
C31_RebuildChecksFreshness ==
    \A i \in 1..Len(nlog) : nlog[i].built_ok => nlog[i].fresh

\* the last event of the history that rebuilt the index
LastBuild == CHOOSE i \in 1..Len(nlog) : nlog[i].built /\ \A j \in (i + 1)..Len(nlog) : ~nlog[j].built

\* the index is the one a successful rebuild from the bulk file left
IndexReady == (\E i \in 1..Len(nlog) : nlog[i].built) /\ nlog[LastBuild].built_ok

\* the names of a reference card: its primary name, its face names, the
\* halves of a split name, its printed name
NamesOf(card) ==
    {card.name}
    \cup {card.card_faces[i] : i \in 1..Len(card.card_faces)}
    \cup {Strip(SplitSlashes(card.name)[i]) : i \in 1..Len(SplitSlashes(card.name))}
    \cup {card.printed_name}

\* no other card of the dataset has a name with the same normalized form
OwnName(cards, k, n) ==
    \A j \in 1..Len(cards) :
        j # k => \A n2 \in NamesOf(cards[j]) : _normalize_name(n2) # _normalize_name(n)

C33_IndexReplacedWholesale ==
    [][(/\ Len(nlog') > Len(nlog)
        /\ nlog'[Len(nlog')].built
        /\ ~nlog'[Len(nlog')].built_ok)
       => (oracle_cache' = oracle_cache /\ last_updated' = last_updated)]_vars

\* C34: when normalize_all_pending returns success, every card that was
\* without canonical id when the sweep read the store has received a
\* canonical id or had its name logged as unmapped by this sweep.
C34_SweepHandlesEveryCard ==
    [][(/\ Len(nruns') > Len(nruns)
        /\ nruns'[Len(nruns')].result.status = "success")
       => \A pending \in get_decks_needing_normalization :
              \/ \A j \in 1..Len(deck_cards') :
                    (deck_cards'[j].deck_id = pending[1] /\ deck_cards'[j].name = pending[2])
                    => deck_cards'[j].oracle_id # NULL
              \/ \E k \in 1..Len(nruns'[Len(nruns')].missed) :
                    nruns'[Len(nruns')].missed[k] = pending]_vars

\* every stored card whose name the ready index resolves has a canonical id
ResolvableCardsResolved ==
    \A j \in 1..Len(deck_cards) :
        ReadyIndex[deck_cards[j].name] # NULL => deck_cards[j].oracle_id # NULL

\* C35: once the store is no longer written by ingestion and the sweep is run
\* again and again with a ready index, eventually every stored card whose
\* name is resolvable has a canonical id.
C35_SweepsMakeProgress ==
    (ingestion_job = "built") ~> ResolvableCardsResolved

\* C36: one run of the export job passes to fetch_deck at most max_decks
\* identifiers, the first ones of the list in their order, and one run of the
\* incremental job requests at most min(max_pages, 10) pages, in increasing
\* order from page 1, and no page after one that returned no decks.
C36_PerRunLimits ==
    /\ (job.pc # "idle" /\ job.name = "moxfield_export") =>
          /\ Len(job.fetched) <= job.max_decks
          /\ Len(job.fetched) <= Len(job.deck_ids)
          /\ job.fetched = SubSeq(job.deck_ids, 1, Len(job.fetched))
    /\ (job.pc # "idle" /\ job.name = "archidekt_incremental") =>
          /\ Len(job.pages) <= (IF job.max_pages <= 10 THEN job.max_pages ELSE 10)
          /\ \A i \in 1..Len(job.pages) : job.pages[i] = i
          /\ job.stopped => job.pc # "pages"

\* an incremental run configured with more pages than the cap has ended after
\* ten pages with decks
C36_Witness ==
    /\ job.pc = "done" /\ job.name = "archidekt_incremental"
    /\ job.max_pages > 10
    /\ Len(job.pages) = 10
    /\ ~job.stopped

\* C37: for run_archidekt_incremental and run_moxfield_export, the status of
\* the result a run returns is the status of the JobRun the run recorded.
C37_ReturnedStatusIsRecorded ==
    \A i \in 1..Len(calls) :
        (/\ calls[i].job \in {"archidekt_incremental", "moxfield_export"}
         /\ calls[i].result.status # "running"
         /\ calls[i].records # <<>>)
        => \A k \in 1..Len(calls[i].records) :
               logs[calls[i].records[k]].status = calls[i].result.status

\* a step in which insert_deck_cards raised
InsertFailed ==
    \E s \in SourceNames, p \in BadPayloads, fail_at \in FailurePoints :
        PersistDeckFails(s, p, fail_at)

\* C38: a call of insert_deck_cards that fails leaves the rows of deck_cards
\* as they were: the old rows of the deck stay and no new row is stored.
C38_InsertAllOrNothing ==
    [][InsertFailed => deck_cards' = deck_cards]_vars

\* a deck with stored cards went through a failed replacement of its cards
C38_Witness ==
    \E i \in 1..Len(decks) :
        /\ decks[i].title = "t2"
        /\ Len(StoredCards(i)) > 1

\* the browser sessions started and not yet released
OpenSessions ==
    Cardinality({i \in 1..Len(mox_ops) : mox_ops[i].created})
    - Cardinality({i \in 1..Len(mox_ops) :
                      mox_ops[i].op = "cleanup" /\ mox_ops[i].held_before # NoDriver})

\* C39: under browser requests and cleanup calls in any order, a session is
\* started only when none is held, a request made while one is held keeps
\* that session, at most one session is open and it is the one held, after a
\* cleanup none is held whether or not the browser quit, and a cleanup with
\* no session held changes nothing.
C39_OneSessionReused ==
    /\ [](/\ OpenSessions = (IF driver = NoDriver THEN 0 ELSE 1)
          /\ \A i \in 1..Len(mox_ops) :
                /\ mox_ops[i].created => mox_ops[i].held_before = NoDriver
                /\ (mox_ops[i].op = "request" /\ mox_ops[i].held_before # NoDriver)
                      => mox_ops[i].held_after = mox_ops[i].held_before
                /\ mox_ops[i].op = "cleanup" => mox_ops[i].held_after = NoDriver)
    /\ [][(/\ Len(mox_ops') > Len(mox_ops)
           /\ mox_ops'[Len(mox_ops')].op = "cleanup"
           /\ driver = NoDriver)
          => (driver' = driver /\ use_selenium' = use_selenium)]_vars

\* a session was started, reused by a second request, released by a cleanup
\* whose quit failed, and a second cleanup found no session
C39_Witness ==
    /\ Len(mox_ops) = 4
    /\ mox_ops[1].op = "request" /\ mox_ops[1].created
    /\ mox_ops[2].op = "request" /\ ~mox_ops[2].created /\ mox_ops[2].ok
    /\ mox_ops[3].op = "cleanup" /\ ~mox_ops[3].ok
    /\ mox_ops[4].op = "cleanup" /\ mox_ops[4].held_before = NoDriver
    /\ driver = NoDriver

\* C40: run_once with a name outside job_methods returns a result with status
\* error that names the job, runs no job, writes no JobRun and leaves the
\* store and the adapter as they are; with a known name it runs that job once,
\* and an exception of the job comes back as a result with status error.
C40_RunOnceDispatch ==
    /\ [](\A i \in 1..Len(triggered) :
             IF triggered[i].job \notin job_methods
             THEN /\ triggered[i].result.status = "error"
                  /\ triggered[i].result.message[2] = triggered[i].job
                  /\ triggered[i].ran = <<>>
                  /\ ~triggered[i].raised
             ELSE /\ triggered[i].ran = <<triggered[i].job>>
                  /\ ~triggered[i].raised
                  /\ triggered[i].outcome = "raise" => triggered[i].result.status = "error"
                  /\ triggered[i].outcome # "raise"
                        => triggered[i].result.status = triggered[i].outcome)
    /\ [][(/\ Len(triggered') > Len(triggered)
           /\ triggered'[Len(triggered')].job \notin job_methods)
          => (/\ logs' = logs
              /\ driver' = driver
              /\ UNCHANGED dbVars)]_vars

\* a known job persisted a deck and wrote its JobRun, then run_once was
\* called with an unknown name, and a job raised in another call
C40_Witness ==
    /\ Len(triggered) = 2
    /\ triggered[1].job \in job_methods /\ triggered[1].outcome = "raise"
    /\ triggered[2].job \notin job_methods
    /\ deck_cards # <<>>

====
